---- MODULE Spec2Model ----
(***************************************************************************)
(* Model of the Redis cluster autoscaler's reconcile loop: the RedisCluster *)
(* object (spec and status), the StatefulSet and its pods, the one-shot     *)
(* jobs (bootstrap, reshard, join-nodes, drain, cleanup-standby), and the   *)
(* hash-slot ownership of the data-plane cluster.  One reconcile tick is    *)
(* one action; the StatefulSet controller, the job runner and the clock are *)
(* environment actions.  Pod "<name>-<ordinal>" is modelled by its ordinal, *)
(* the empty pod name by NoPod.                                             *)
(***************************************************************************)
EXTENDS Integers, Sequences, FiniteSets, TLC

VARIABLES
  spec,       \* persisted RedisCluster.Spec
  status,     \* persisted RedisCluster.Status
  sts,        \* StatefulSet .spec.replicas (NoSts before it is created)
  pods,       \* number of Running pods: ordinals 0 .. pods-1
  lastReady,  \* FALSE while the highest-ordinal pod is not Ready yet
  jobs,       \* job name -> [st, args]
  slots,      \* pod ordinal -> number of hash slots its Redis node owns
  nodes,      \* pod ordinals whose Redis node is a master of the cluster
  now,        \* wall clock, seconds
  faults,     \* API calls and job steps that have failed so far
  proto,      \* history: the protocol in progress; Spec.Masters, the standby
              \* and the slots it owned at the trigger
  metrics,    \* decision engine alone: the Prometheus samples, in map order
  verdict     \* decision engine alone: what the decision function returned

vars == <<spec, status, sts, pods, lastReady, jobs, slots, nodes, now, faults, proto,
          metrics, verdict>>

----------------------------------------------------------------------------
\* Bounds of the model

\* triggerScaleUp is explored only while Spec.Masters < MaxMasters
MaxMasters == 4
\* the clock stops at MaxTime
MaxTime == 60
\* at most MaxFaults API calls or job steps fail in one behaviour
MaxFaults == 1
\* the decision engine alone is given at most MaxSamples samples
MaxSamples == 3

----------------------------------------------------------------------------
\* Program constants

SlotSpace == 16384
DefaultMinMasters == 3
DefaultReplicasPerMaster == 1
DefaultMemoryThreshold == 70
DefaultMemoryThresholdLow == 30
DefaultCpuThresholdLow == 20
DefaultScaleCooldownSeconds == 60
\* the cpuThreshold of the documented example cluster (the field has no default)
ExampleCpuThreshold == 70
\* checkScaleDownCondition asks for this many underutilized pods
MinUnderutilized == 2

NoPod == -1
NoSts == -1
NoTime == -1

\* the clock advances by half a cooldown
ClockStep == DefaultScaleCooldownSeconds \div 2

\* pod ordinals the model can create
MaxOrdinal == (MaxMasters + MaxFaults + 2) * (1 + DefaultReplicasPerMaster)
Ordinals == 0 .. MaxOrdinal

JobNames == {"bootstrap", "reshard", "join", "drain", "cleanup"}
NoJob == [st |-> "none", args |-> <<>>]

Max(a, b) == IF a >= b THEN a ELSE b

----------------------------------------------------------------------------
\* api/v1: SetDefaults and ValidateSpec

SetDefaults(s) ==
  [s EXCEPT
     !.MinMasters = IF @ = 0 THEN DefaultMinMasters ELSE @,
     !.MemoryThreshold = IF @ = 0 THEN DefaultMemoryThreshold ELSE @,
     !.MemoryThresholdLow = IF @ = 0 THEN DefaultMemoryThresholdLow ELSE @,
     !.CpuThresholdLow = IF @ = 0 THEN DefaultCpuThresholdLow ELSE @,
     !.ScaleCooldownSeconds = IF @ = 0 THEN DefaultScaleCooldownSeconds ELSE @,
     !.ReplicasPerMaster = IF @ = 0 THEN DefaultReplicasPerMaster ELSE @,
     !.ServiceName = TRUE]

ValidateSpec(s) ==
  /\ ~(s.CpuThreshold <= s.CpuThresholdLow)
  /\ ~(s.MemoryThreshold <= s.MemoryThresholdLow)
  /\ ~(s.Masters < s.MinMasters)
  /\ (s.ExistingCluster => s.PodSelector /\ s.ServiceName)

\* the object a tick works on: the persisted spec with the defaults applied
cluster == SetDefaults(spec)

\* (Masters + 1) * (1 + ReplicasPerMaster), the StatefulSet's replica count
TotalReplicas(s) == (s.Masters + 1) * (1 + s.ReplicasPerMaster)

\* ordinal of the standby master: Masters * (1 + ReplicasPerMaster)
StandbyIndex(s) == s.Masters * (1 + s.ReplicasPerMaster)

\* sts.Status.ReadyReplicas
ReadyReplicas == IF lastReady THEN pods ELSE pods - 1

PodExists(p) == p >= 0 /\ p < pods
PodReady(p) == p >= 0 /\ p < ReadyReplicas

----------------------------------------------------------------------------
\* Initial state: the object has just been created by the user

UserSpec(m) ==
  [Masters |-> m, MinMasters |-> 0, ReplicasPerMaster |-> 0,
   AutoScaleEnabled |-> TRUE,
   CpuThreshold |-> ExampleCpuThreshold, CpuThresholdLow |-> 0,
   MemoryThreshold |-> 0, MemoryThresholdLow |-> 0,
   ScaleCooldownSeconds |-> 0,
   \* PodSelector, ServiceName: whether the field is non-empty
   ExistingCluster |-> FALSE, PodSelector |-> FALSE, ServiceName |-> FALSE]

EmptyStatus ==
  [Initialized |-> FALSE, IsResharding |-> FALSE,
   IsProvisioningStandby |-> FALSE, IsDraining |-> FALSE,
   LastScaleTime |-> NoTime, StandbyPod |-> NoPod, OverloadedPod |-> NoPod,
   PodToDrain |-> NoPod, DrainDestPod1 |-> NoPod, DrainDestPod2 |-> NoPod]

NoProto == [kind |-> "none", masters |-> 0, standby |-> NoPod, standbySlots |-> 0]
NoVerdict == [kind |-> "none"]

Init ==
  /\ spec \in {UserSpec(m) : m \in DefaultMinMasters .. MaxMasters}
  /\ status = EmptyStatus
  /\ sts = NoSts
  /\ pods = 0
  /\ lastReady = TRUE
  /\ jobs = [j \in JobNames |-> NoJob]
  /\ slots = [o \in Ordinals |-> 0]
  /\ nodes = {}
  /\ now = 0
  /\ faults = 0
  /\ proto = NoProto
  /\ metrics = <<>>
  /\ verdict = NoVerdict

----------------------------------------------------------------------------
\* Environment: the StatefulSet controller (OrderedReady pod management)

PodCreate ==
  /\ sts # NoSts /\ lastReady /\ pods < sts
  /\ pods < MaxOrdinal + 1
  /\ pods' = pods + 1
  /\ lastReady' = FALSE
  /\ UNCHANGED <<metrics, verdict,
                 spec, status, sts, jobs, slots, nodes, now, faults, proto>>

PodBecomesReady ==
  /\ ~lastReady
  /\ lastReady' = TRUE
  /\ UNCHANGED <<metrics, verdict,
                 spec, status, sts, pods, jobs, slots, nodes, now, faults, proto>>

\* scale-down deletes the highest ordinal first
PodDelete ==
  /\ sts # NoSts /\ pods > sts
  /\ pods' = pods - 1
  /\ lastReady' = TRUE
  /\ UNCHANGED <<metrics, verdict,
                 spec, status, sts, jobs, slots, nodes, now, faults, proto>>

\* Environment: the clock
ClockTick ==
  /\ now + ClockStep <= MaxTime
  /\ now' = now + ClockStep
  /\ UNCHANGED <<metrics, verdict,
                 spec, status, sts, pods, lastReady, jobs, slots, nodes, faults, proto>>

----------------------------------------------------------------------------
\* The job scripts.  Each gives the set of results a run can end with:
\* [ok, slots, nodes, midway], ok = exit status 0, midway = the run was cut
\* short between two of its steps.  Every job can also fail without having
\* changed anything (cluster_state not ok, active deadline exceeded).

Result(ok, sl, nd) == [ok |-> ok, slots |-> sl, nodes |-> nd, midway |-> FALSE]
Midway(sl, nd) == [ok |-> FALSE, slots |-> sl, nodes |-> nd, midway |-> TRUE]
NoEffectFailure == Result(FALSE, slots, nodes)

\* Reshard with the slots leaving the source and never reaching the target
Reshard_Lossy(sl, src, dst, n) ==
  [sl EXCEPT ![src] = @ - n]

\* redis-cli --cluster reshard --cluster-from src --cluster-to dst, n slots
Reshard(sl, src, dst, n) ==
  [sl EXCEPT ![src] = @ - n, ![dst] = @ + n]

\* redis-cli --cluster create: the slot space is split over the masters
EvenSlots(masterOrdinals, m) ==
  LET base == SlotSpace \div m
      extra == SlotSpace % m
      rank(o) == Cardinality({q \in masterOrdinals : q < o})
  IN [o \in Ordinals |->
        IF o \in masterOrdinals
        THEN base + (IF rank(o) < extra THEN 1 ELSE 0)
        ELSE 0]

\* bootstrap script: create the cluster on the active pods, then add the
\* standby master with 0 slots.  args = <<Masters, ReplicasPerMaster>>
\* redis-cli picks the masters among the pods it is given; the model takes
\* them at the ordinals the controller counts on, the multiples of
\* 1 + ReplicasPerMaster (triggerScaleDown, detectAndSetStandbyPod).
BootstrapScript(args) ==
  LET m == args[1]
      r == args[2]
      active == {i * (1 + r) : i \in 0 .. (m - 1)}
      standby == m * (1 + r)
  IN IF \A o \in 0 .. standby : PodExists(o)
     THEN {Result(TRUE, EvenSlots(active, m), active \cup {standby})}
     ELSE {}

\* reshard script (scale-up).  args = <<OVERLOADED_POD, STANDBY_POD>>
ReshardScript(args) ==
  LET overloaded == args[1]
      standby == args[2]
      total == slots[overloaded]
      slotsToMove == total \div 2
  IN IF ~PodExists(standby) \/ standby \notin nodes THEN {}
     ELSE IF slots[standby] # 0 THEN {}
     ELSE IF ~PodExists(overloaded) \/ overloaded \notin nodes THEN {}
     ELSE IF slotsToMove <= 0 THEN {Result(TRUE, slots, nodes)}
     ELSE {Result(TRUE, Reshard(slots, overloaded, standby, slotsToMove), nodes),
           \* redis-cli moves the slots one after the other: a run that is cut
           \* short (active deadline, lost connection) has moved some of them
           Midway(Reshard(slots, overloaded, standby, slotsToMove \div 2), nodes)}

\* drain script (scale-down).
\* args = <<POD_TO_DRAIN, DEST_POD_1, DEST_POD_2, STANDBY_POD>>
DrainScript(args) ==
  LET pod == args[1]
      dest1 == args[2]
      dest2 == args[3]
      standby == args[4]
      haveDest2 == dest2 # NoPod /\ PodExists(dest2)
      slotCount == slots[pod]
      halfSlots == slotCount \div 2
      remainingSlots == slotCount - halfSlots
      afterFirst == Reshard(slots, pod, dest1, halfSlots)
  IN IF ~PodExists(standby) \/ standby \notin nodes THEN {}
     ELSE IF ~PodExists(pod) \/ ~PodExists(dest1) THEN {}
     ELSE IF pod \notin nodes THEN {Result(TRUE, slots, nodes)}
     ELSE IF dest1 \notin nodes THEN {}
     ELSE IF haveDest2 /\ dest2 \notin nodes THEN {}
     ELSE IF slotCount = 0 THEN {Result(TRUE, slots, nodes)}
     ELSE IF haveDest2
       THEN (IF halfSlots = 0
             \* "echo 0 | redis-cli --cluster reshard": the prompt is not
             \* answered with a count it accepts
             THEN {}
             ELSE {Result(TRUE, Reshard(afterFirst, pod, dest2, remainingSlots), nodes),
                   \* the second reshard fails after the first was done
                   Midway(afterFirst, nodes)})
       ELSE {Result(TRUE, Reshard(slots, pod, dest1, slotCount), nodes)}

\* redis-cli --cluster del-node: refused for a node that still owns slots
DelNodeRefused(sl, nd, o) == PodExists(o) /\ o \in nd /\ sl[o] # 0

\* cleanup-standby script.
\* args = <<NEW_STANDBY_INDEX, OLD_STANDBY_INDEX>>
CleanupScript(args) ==
  LET newStandby == args[1]
      oldStandby == args[2]
      afterStep1 == IF PodExists(newStandby) THEN nodes \ {newStandby} ELSE nodes
      afterStep2 == IF PodExists(oldStandby) THEN afterStep1 \ {oldStandby} ELSE afterStep1
      reset == [slots EXCEPT ![newStandby] = 0]
  IN IF DelNodeRefused(slots, nodes, newStandby) THEN {}
     ELSE IF DelNodeRefused(slots, afterStep1, oldStandby)
       THEN {Result(FALSE, slots, afterStep1)}
     ELSE IF ~PodExists(newStandby) THEN {Result(FALSE, slots, afterStep2)}
     ELSE {Result(TRUE, reset, afterStep2 \cup {newStandby})}

\* join-nodes script.  args = <<NEW_STANDBY_INDEX>>
JoinScript(args) ==
  LET standby == args[1]
  IN IF ~PodExists(standby) THEN {}
     ELSE IF standby \in nodes THEN {Result(TRUE, slots, nodes)}
     \* redis-cli --cluster add-node refuses a node that is not empty
     ELSE IF slots[standby] # 0 THEN {}
     ELSE {Result(TRUE, slots, nodes \cup {standby})}

Script(j, args) ==
  CASE j = "bootstrap" -> BootstrapScript(args)
    [] j = "reshard" -> ReshardScript(args)
    [] j = "join" -> JoinScript(args)
    [] j = "drain" -> DrainScript(args)
    [] j = "cleanup" -> CleanupScript(args)

\* Environment: the job runner ends a running job
JobEnds(j) ==
  /\ jobs[j].st = "running"
  /\ \E res \in Script(j, jobs[j].args) \cup {NoEffectFailure} :
       /\ res.midway => faults < MaxFaults
       /\ jobs' = [jobs EXCEPT ![j].st = IF res.ok THEN "succeeded" ELSE "failed"]
       /\ slots' = res.slots
       /\ nodes' = res.nodes
       /\ faults' = IF res.midway THEN faults + 1 ELSE faults
  /\ UNCHANGED <<metrics, verdict,
                 spec, status, sts, pods, lastReady, now, proto>>

BootstrapJobEnds == JobEnds("bootstrap")
ReshardJobEnds == JobEnds("reshard")
JoinJobEnds == JobEnds("join")
DrainJobEnds == JobEnds("drain")
CleanupJobEnds == JobEnds("cleanup")

----------------------------------------------------------------------------
\* Decision engine (autoscaler.go).  A PodLoad is [PodName, CPUUsage,
\* MemoryUsage]; podLoads is a sequence in the order the metrics map was
\* iterated.

PodLoad(p, cpu, mem) == [PodName |-> p, CPUUsage |-> cpu, MemoryUsage |-> mem]
EmptyPodLoad == PodLoad(NoPod, 0, 0)

Exceeds(c, pod) ==
  pod.CPUUsage > c.CpuThreshold \/ pod.MemoryUsage > c.MemoryThreshold

RECURSIVE ScaleUpLoop(_, _, _, _)
ScaleUpLoop(c, podLoads, i, acc) ==
  IF i > Len(podLoads) THEN acc
  ELSE LET pod == podLoads[i]
           take == /\ Exceeds(c, pod)
                   /\ \/ acc.triggerPod.PodName = NoPod
                      \/ pod.MemoryUsage > acc.triggerPod.MemoryUsage
       IN ScaleUpLoop(c, podLoads, i + 1,
            [triggered |-> acc.triggered \/ Exceeds(c, pod),
             triggerPod |-> IF take THEN pod ELSE acc.triggerPod])

\* checkScaleUpCondition without the comparison of memory: the last pod over
\* a threshold is the trigger
checkScaleUpCondition_LastExceeding(c, podLoads) ==
  LET over == {i \in 1 .. Len(podLoads) : Exceeds(c, podLoads[i])}
  IN IF over = {}
     THEN [shouldScaleUp |-> FALSE, triggerPod |-> EmptyPodLoad]
     ELSE [shouldScaleUp |-> TRUE,
           triggerPod |-> podLoads[CHOOSE i \in over : \A j \in over : j <= i]]

\* returns [shouldScaleUp, triggerPod]
checkScaleUpCondition(c, podLoads) ==
  LET r == ScaleUpLoop(c, podLoads, 1,
                       [triggered |-> FALSE, triggerPod |-> EmptyPodLoad])
  IN IF ~r.triggered
     THEN [shouldScaleUp |-> FALSE, triggerPod |-> EmptyPodLoad]
     ELSE [shouldScaleUp |-> TRUE, triggerPod |-> r.triggerPod]

Underutilized(c, pod) ==
  pod.CPUUsage < c.CpuThresholdLow /\ pod.MemoryUsage < c.MemoryThresholdLow

\* checkScaleDownCondition satisfied by a single underutilized pod
checkScaleDownCondition_AtLeastOne(c, podLoads) ==
  IF c.Masters <= c.MinMasters THEN FALSE
  ELSE Cardinality({i \in 1 .. Len(podLoads) : Underutilized(c, podLoads[i])}) >= 1

checkScaleDownCondition(c, podLoads) ==
  IF c.Masters <= c.MinMasters THEN FALSE
  ELSE Cardinality({i \in 1 .. Len(podLoads) : Underutilized(c, podLoads[i])})
         >= MinUnderutilized

\* sort.Slice by MemoryUsage is not stable: every order of the loads that is
\* ascending in MemoryUsage can come out.  Only sortedLoads[0] and
\* sortedLoads[1] are read: the pairs <<first, second>> a sort can put there
LowestTwo(loads) ==
  LET idx == 1 .. Len(loads)
      least(S) == {k \in S : \A l \in S : loads[k].MemoryUsage <= loads[l].MemoryUsage}
      pairs == {pr \in idx \X idx :
                  pr[1] \in least(idx) /\ pr[2] \in least(idx \ {pr[1]})}
  IN {<<loads[pr[1]], loads[pr[2]]>> : pr \in pairs}

IsMasterOrdinal(c, p) == p % (1 + c.ReplicasPerMaster) = 0

\* DrainPlans with the victim taken at index Masters * (1 + R)
DrainPlans_AtStandbyIndex(c, podLoads) ==
  LET victim == c.Masters * (1 + c.ReplicasPerMaster)
      masterLoads == SelectSeq(podLoads, LAMBDA l : IsMasterOrdinal(c, l.PodName))
  IN IF Len(masterLoads) < 2 THEN {}
     ELSE {[pod |-> victim, dest1 |-> sl[1].PodName, dest2 |-> sl[2].PodName] :
             sl \in LowestTwo(masterLoads)}

\* DrainPlans recording the two lowest-memory pods whoever the victim is
DrainPlans_AlwaysTwo(c, podLoads) ==
  LET victim == (c.Masters - 1) * (1 + c.ReplicasPerMaster)
      masterLoads == SelectSeq(podLoads, LAMBDA l : IsMasterOrdinal(c, l.PodName))
  IN IF Len(masterLoads) < 2 THEN {}
     ELSE {[pod |-> victim, dest1 |-> sl[1].PodName, dest2 |-> sl[2].PodName] :
             sl \in LowestTwo(masterLoads)}

\* DrainPlans without the filter on the pod index: replicas can be chosen
DrainPlans_NoMasterFilter(c, podLoads) ==
  LET highestIndexPod == (c.Masters - 1) * (1 + c.ReplicasPerMaster)
      plan(sortedLoads) ==
        LET lowestUtil1 == sortedLoads[1].PodName
            lowestUtil2 == sortedLoads[2].PodName
        IN IF highestIndexPod # lowestUtil1 /\ highestIndexPod # lowestUtil2
           THEN [pod |-> highestIndexPod, dest1 |-> lowestUtil1, dest2 |-> lowestUtil2]
           ELSE IF highestIndexPod = lowestUtil1
           THEN [pod |-> highestIndexPod, dest1 |-> lowestUtil2, dest2 |-> NoPod]
           ELSE [pod |-> highestIndexPod, dest1 |-> lowestUtil1, dest2 |-> NoPod]
  IN IF Len(podLoads) < 2 THEN {}
     ELSE {plan(sl) : sl \in LowestTwo(podLoads)}

\* triggerScaleDown: the drain plans it can record, [pod, dest1, dest2];
\* empty when fewer than two master loads are left
DrainPlans(c, podLoads) ==
  LET highestIndexPod == (c.Masters - 1) * (1 + c.ReplicasPerMaster)
      masterLoads == SelectSeq(podLoads, LAMBDA l : IsMasterOrdinal(c, l.PodName))
      plan(sortedLoads) ==
        LET lowestUtil1 == sortedLoads[1].PodName
            lowestUtil2 == sortedLoads[2].PodName
        IN IF highestIndexPod # lowestUtil1 /\ highestIndexPod # lowestUtil2
           THEN [pod |-> highestIndexPod, dest1 |-> lowestUtil1, dest2 |-> lowestUtil2]
           ELSE IF highestIndexPod = lowestUtil1
           THEN [pod |-> highestIndexPod, dest1 |-> lowestUtil2, dest2 |-> NoPod]
           ELSE [pod |-> highestIndexPod, dest1 |-> lowestUtil1, dest2 |-> NoPod]
  IN IF Len(masterLoads) < 2 THEN {}
     ELSE {plan(sl) : sl \in LowestTwo(masterLoads)}

----------------------------------------------------------------------------
\* queryPodMetrics with the standby's sample left in the list
queryPodMetrics_KeepsStandby(samples, standbyPod) == samples

\* queryPodMetrics: samples is the sequence of the pods Prometheus has both
\* a CPU and a memory sample for, in the order the CPU map is iterated; the
\* standby's sample is skipped
queryPodMetrics(samples, standbyPod) ==
  SelectSeq(samples, LAMBDA l : l.PodName # standbyPod)

\* The samples a tick can read: one for every pod whose Redis role is
\* master, all pods at one level except possibly one pod, in ascending or
\* descending pod order; or nothing at all.

Idle == PodLoad(NoPod, 10, 10)
Normal == PodLoad(NoPod, 50, 50)
Hot == PodLoad(NoPod, 90, 90)
Levels == {Idle, Normal, Hot}

MetricPods == {p \in Ordinals : PodExists(p) /\ IsMasterOrdinal(cluster, p)}

RECURSIVE Ascending(_)
Ascending(S) ==
  IF S = {} THEN <<>>
  ELSE LET lo == CHOOSE x \in S : \A y \in S : x <= y
       IN <<lo>> \o Ascending(S \ {lo})

Reverse(q) == [i \in 1 .. Len(q) |-> q[Len(q) + 1 - i]]

PossiblePodLoads ==
  LET order == Ascending(MetricPods)
      readings == {[p \in MetricPods |-> IF p = d THEN dl ELSE b] :
                     b \in Levels, dl \in Levels, d \in MetricPods}
      fwd == {[i \in 1 .. Len(order) |->
                 PodLoad(order[i], lv[order[i]].CPUUsage, lv[order[i]].MemoryUsage)] :
                lv \in readings}
  IN {queryPodMetrics(q, status.StandbyPod) :
        q \in fwd \cup {Reverse(q) : q \in fwd}} \cup {<<>>}

----------------------------------------------------------------------------
\* Reconcile (rediscluster_controller.go).  Every tick starts the same way:
\* Get, SetDefaults, ValidateSpec, reconcileInfrastructure (which writes the
\* StatefulSet for the current Spec.Masters), then handleBootstrap, which
\* ends the tick unless every replica is Ready.  A tick that only reads, or
\* whose first write fails, changes nothing and is a stuttering step.

\* TickStarts without the call of ValidateSpec
TickStarts_NoValidation == TRUE

TickStarts == ValidateSpec(cluster)

AllReplicasReady == ReadyReplicas = TotalReplicas(cluster)

Stable(st) == ~st.IsDraining /\ ~st.IsResharding /\ ~st.IsProvisioningStandby

\* the history variable follows the status: a protocol is over when no flag is set
ProtoAfter(st) == IF Stable(st) THEN NoProto ELSE proto

\* an API call may fail while fewer than MaxFaults have failed
FaultChoices(fs) == {"none"} \cup (IF faults < MaxFaults THEN fs ELSE {})
FaultsAfter(f) == IF f = "none" THEN faults ELSE faults + 1

DeleteJob(js, j) == [js EXCEPT ![j] = NoJob]
CreateJob(js, j, args) == [js EXCEPT ![j] = [st |-> "running", args |-> args]]

\* detectAndSetStandbyPod, managed cluster: the pod at the standby index,
\* if it is Running and Ready; NoPod stands for the error return
detectAndSetStandbyPod(c) ==
  IF PodReady(StandbyIndex(c)) THEN StandbyIndex(c) ELSE NoPod

\* the tick ends in handleBootstrap: replicas are not all Ready
WaitForReplicas ==
  /\ TickStarts
  /\ ~cluster.ExistingCluster
  /\ ~AllReplicasReady
  /\ sts' = TotalReplicas(cluster)
  /\ UNCHANGED <<metrics, verdict,
                 spec, status, pods, lastReady, jobs, slots, nodes, now, faults, proto>>

\* handleBootstrap: create the bootstrap job
CreateBootstrapJob ==
  /\ TickStarts /\ AllReplicasReady
  /\ ~cluster.ExistingCluster /\ ~status.Initialized
  /\ jobs["bootstrap"].st = "none"
  /\ sts' = TotalReplicas(cluster)
  /\ jobs' = CreateJob(jobs, "bootstrap", <<cluster.Masters, cluster.ReplicasPerMaster>>)
  /\ UNCHANGED <<metrics, verdict,
                 spec, status, pods, lastReady, slots, nodes, now, faults, proto>>

\* handleBootstrap: the bootstrap job succeeded
BootstrapSucceeded ==
  /\ TickStarts /\ AllReplicasReady
  /\ ~cluster.ExistingCluster /\ ~status.Initialized
  /\ jobs["bootstrap"].st = "succeeded"
  /\ detectAndSetStandbyPod(cluster) # NoPod
  /\ sts' = TotalReplicas(cluster)
  /\ status' = [status EXCEPT !.Initialized = TRUE,
                              !.StandbyPod = detectAndSetStandbyPod(cluster)]
  /\ UNCHANGED <<metrics, verdict,
                 spec, pods, lastReady, jobs, slots, nodes, now, faults, proto>>

\* AutoScaling without the test of Spec.AutoScaleEnabled
AutoScaling_IgnoresSwitch ==
  /\ TickStarts /\ AllReplicasReady
  /\ status.Initialized /\ status.StandbyPod # NoPod

\* handleBootstrap, existing cluster not Initialized: discoverRedisTopology
\* needs one Running pod; detectAndSetStandbyPod then succeeds only when
\* Status.StandbyPod is already set, and only then is the status written.
DiscoverExisting ==
  /\ TickStarts
  /\ cluster.ExistingCluster /\ ~status.Initialized
  /\ sts' = TotalReplicas(cluster)
  /\ status' = IF pods > 0 /\ status.StandbyPod # NoPod
                THEN [status EXCEPT !.Initialized = TRUE]
                ELSE status
  /\ UNCHANGED <<metrics, verdict,
                 spec, pods, lastReady, jobs, slots, nodes, now, faults, proto>>

\* AutoScaling without the tests of Status.Initialized and Status.StandbyPod
AutoScaling_BeforeBootstrap ==
  /\ TickStarts /\ AllReplicasReady
  /\ cluster.AutoScaleEnabled

\* Reconcile reaches handleAutoScaling
AutoScaling ==
  /\ TickStarts /\ AllReplicasReady
  /\ status.Initialized /\ status.StandbyPod # NoPod
  /\ cluster.AutoScaleEnabled

----------------------------------------------------------------------------
\* monitorMetrics and the health gate (autoscaler.go)

\* checkCooldownPeriod with the cooldown taken as nanoseconds, not seconds
checkCooldownPeriod_Nanoseconds(c) ==
  \/ status.LastScaleTime = NoTime
  \/ ~(now - status.LastScaleTime < c.ScaleCooldownSeconds \div 1000000000)

checkCooldownPeriod(c) ==
  \/ status.LastScaleTime = NoTime
  \/ ~(now - status.LastScaleTime < c.ScaleCooldownSeconds)

checkPodCount(c) ==
  /\ pods = TotalReplicas(c)
  /\ ReadyReplicas = TotalReplicas(c)

\* checkJobStatus without its check of Status.Failed
checkJobStatus_IgnoresFailed(j) == jobs[j].st \in {"none", "succeeded", "failed"}

\* checkJobStatus: no error when the job is absent or has succeeded
checkJobStatus(j) == jobs[j].st \in {"none", "succeeded"}

checkNoJobsRunning == checkJobStatus("reshard") /\ checkJobStatus("drain")

isJobRunning(j) == jobs[j].st = "running"

Monitoring == AutoScaling /\ Stable(status)

\* checkAndUpdateStandbyPod found another standby: persist it, end the tick
UpdateStandbyPod ==
  /\ Monitoring
  /\ checkCooldownPeriod(cluster)
  /\ checkPodCount(cluster)
  /\ detectAndSetStandbyPod(cluster) # NoPod
  /\ detectAndSetStandbyPod(cluster) # status.StandbyPod
  /\ sts' = TotalReplicas(cluster)
  /\ status' = [status EXCEPT !.StandbyPod = detectAndSetStandbyPod(cluster)]
  /\ UNCHANGED <<metrics, verdict,
                 spec, pods, lastReady, jobs, slots, nodes, now, faults, proto>>

\* isClusterHealthyForScaling going on after the standby reference changed
isClusterHealthyForScaling_NoStabilizing(c) ==
  /\ checkCooldownPeriod(c)
  /\ checkPodCount(c)
  /\ detectAndSetStandbyPod(c) # NoPod
  /\ checkNoJobsRunning
  /\ ~(status.IsDraining \/ status.IsResharding)

isClusterHealthyForScaling(c) ==
  /\ checkCooldownPeriod(c)
  /\ checkPodCount(c)
  /\ detectAndSetStandbyPod(c) # NoPod
  /\ detectAndSetStandbyPod(c) = status.StandbyPod
  /\ checkNoJobsRunning
  /\ ~(status.IsDraining \/ status.IsResharding)

\* MetricsRead with no count of the pods on the way: neither handleBootstrap's
\* test of ReadyReplicas nor checkPodCount
MetricsRead_NoPodCount ==
  /\ TickStarts
  /\ status.Initialized /\ status.StandbyPod # NoPod
  /\ cluster.AutoScaleEnabled
  /\ Stable(status)
  /\ checkCooldownPeriod(cluster)
  /\ detectAndSetStandbyPod(cluster) = status.StandbyPod
  /\ checkNoJobsRunning
  /\ ~isJobRunning("reshard")

\* monitorMetrics reaches queryPodMetrics
MetricsRead ==
  /\ Monitoring
  /\ isClusterHealthyForScaling(cluster)
  /\ ~isJobRunning("reshard")

triggerScaleUp ==
  /\ MetricsRead
  /\ cluster.Masters < MaxMasters
  /\ \E podLoads \in PossiblePodLoads :
       LET up == checkScaleUpCondition(cluster, podLoads)
       IN /\ Len(podLoads) # 0
          /\ up.shouldScaleUp
          /\ status' = [status EXCEPT !.IsResharding = TRUE,
                                      !.OverloadedPod = up.triggerPod.PodName]
  /\ proto' = [kind |-> "up", masters |-> cluster.Masters, standby |-> status.StandbyPod,
               standbySlots |-> slots[status.StandbyPod]]
  /\ sts' = TotalReplicas(cluster)
  /\ UNCHANGED <<metrics, verdict,
                 spec, pods, lastReady, jobs, slots, nodes, now, faults>>

triggerScaleDown ==
  /\ MetricsRead
  /\ \E podLoads \in PossiblePodLoads :
       /\ Len(podLoads) # 0
       /\ ~checkScaleUpCondition(cluster, podLoads).shouldScaleUp
       /\ checkScaleDownCondition(cluster, podLoads)
       /\ \E plan \in DrainPlans(cluster, podLoads) :
            status' = [status EXCEPT !.IsDraining = TRUE,
                                     !.PodToDrain = plan.pod,
                                     !.DrainDestPod1 = plan.dest1,
                                     !.DrainDestPod2 = plan.dest2]
  /\ proto' = [kind |-> "down", masters |-> cluster.Masters, standby |-> status.StandbyPod,
               standbySlots |-> slots[status.StandbyPod]]
  /\ sts' = TotalReplicas(cluster)
  /\ UNCHANGED <<metrics, verdict,
                 spec, pods, lastReady, jobs, slots, nodes, now, faults>>

----------------------------------------------------------------------------
\* checkReshardingStatus (upscale.go)

Resharding == AutoScaling /\ ~status.IsDraining /\ status.IsResharding

\* no reshard job: create it, or give up when a pod name is missing
ReshardNoJob ==
  /\ Resharding
  /\ jobs["reshard"].st = "none"
  /\ sts' = TotalReplicas(cluster)
  /\ IF status.OverloadedPod = NoPod \/ status.StandbyPod = NoPod
     THEN /\ status' = [status EXCEPT !.IsResharding = FALSE]
          /\ jobs' = jobs
     ELSE /\ status' = status
          /\ jobs' = CreateJob(jobs, "reshard", <<status.OverloadedPod, status.StandbyPod>>)
  /\ proto' = ProtoAfter(status')
  /\ UNCHANGED <<metrics, verdict,
                 spec, pods, lastReady, slots, nodes, now, faults>>

\* ReshardSucceeded with the success branch forgetting IsResharding = false
ReshardSucceeded_KeepsFlag ==
  /\ AutoScaling /\ ~status.IsDraining /\ status.IsResharding
  /\ jobs["reshard"].st = "succeeded"
  /\ spec' = [cluster EXCEPT !.Masters = @ + 1]
  /\ sts' = TotalReplicas(spec')
  /\ status' = [status EXCEPT !.IsProvisioningStandby = TRUE,
                              !.OverloadedPod = NoPod,
                              !.LastScaleTime = now]
  /\ jobs' = DeleteJob(jobs, "reshard")
  /\ UNCHANGED <<metrics, verdict, pods, lastReady, slots, nodes, now, faults, proto>>

\* ReshardSucceeded going straight back to monitoring
ReshardSucceeded_SkipsProvisioning ==
  /\ AutoScaling /\ ~status.IsDraining /\ status.IsResharding
  /\ jobs["reshard"].st = "succeeded"
  /\ spec' = [cluster EXCEPT !.Masters = @ + 1]
  /\ sts' = TotalReplicas(spec')
  /\ status' = [status EXCEPT !.IsResharding = FALSE,
                              !.OverloadedPod = NoPod,
                              !.LastScaleTime = now]
  /\ jobs' = DeleteJob(jobs, "reshard")
  /\ proto' = ProtoAfter(status')
  /\ UNCHANGED <<metrics, verdict, pods, lastReady, slots, nodes, now, faults>>

\* the reshard job succeeded: Masters++, StatefulSet, status, delete the job.
\* A failed spec write ends the tick at once; the StatefulSet write and the
\* delete may fail unnoticed; a failed status write ends the tick with the
\* spec already written.
ReshardSucceeded ==
  /\ Resharding
  /\ jobs["reshard"].st = "succeeded"
  /\ \E f \in FaultChoices({"spec", "sts", "status", "delete"}) :
       LET newSpec == [cluster EXCEPT !.Masters = @ + 1]
       IN /\ spec' = IF f = "spec" THEN spec ELSE newSpec
          /\ sts' = IF f \in {"spec", "sts"} THEN TotalReplicas(cluster)
                    ELSE TotalReplicas(newSpec)
          /\ status' = IF f \in {"spec", "status"} THEN status
                       ELSE [status EXCEPT !.IsResharding = FALSE,
                                           !.IsProvisioningStandby = TRUE,
                                           !.OverloadedPod = NoPod,
                                           !.LastScaleTime = now]
          /\ jobs' = IF f \in {"spec", "status", "delete"} THEN jobs
                     ELSE DeleteJob(jobs, "reshard")
          /\ faults' = FaultsAfter(f)
  /\ UNCHANGED <<metrics, verdict, pods, lastReady, slots, nodes, now, proto>>

\* ReshardFailed clearing IsResharding and leaving OverloadedPod set
ReshardFailed_KeepsOverloaded ==
  /\ Resharding
  /\ jobs["reshard"].st = "failed"
  /\ jobs' = DeleteJob(jobs, "reshard")
  /\ status' = [status EXCEPT !.IsResharding = FALSE]
  /\ sts' = TotalReplicas(cluster)
  /\ proto' = ProtoAfter(status')
  /\ UNCHANGED <<metrics, verdict, spec, pods, lastReady, slots, nodes, now, faults>>

\* the reshard job failed: delete it and go back to monitoring
ReshardFailed ==
  /\ Resharding
  /\ jobs["reshard"].st = "failed"
  /\ \E f \in FaultChoices({"status", "delete"}) :
       /\ jobs' = IF f = "delete" THEN jobs ELSE DeleteJob(jobs, "reshard")
       /\ status' = IF f = "status" THEN status
                    ELSE [status EXCEPT !.IsResharding = FALSE, !.OverloadedPod = NoPod]
       /\ faults' = FaultsAfter(f)
  /\ sts' = TotalReplicas(cluster)
  /\ proto' = ProtoAfter(status')
  /\ UNCHANGED <<metrics, verdict, spec, pods, lastReady, slots, nodes, now>>

----------------------------------------------------------------------------
\* checkProvisioningStatus (provision_standby.go)

Provisioning ==
  /\ AutoScaling /\ ~status.IsDraining /\ ~status.IsResharding
  /\ status.IsProvisioningStandby
  /\ PodReady(StandbyIndex(cluster))

CreateJoinJob ==
  /\ Provisioning
  /\ jobs["join"].st = "none"
  /\ sts' = TotalReplicas(cluster)
  /\ jobs' = CreateJob(jobs, "join", <<StandbyIndex(cluster)>>)
  /\ UNCHANGED <<metrics, verdict,
                 spec, status, pods, lastReady, slots, nodes, now, faults, proto>>

\* JoinSucceeded stamping LastScaleTime at the end of provisioning
JoinSucceeded_StampsTime ==
  /\ Provisioning
  /\ jobs["join"].st = "succeeded"
  /\ jobs' = DeleteJob(jobs, "join")
  /\ status' = [status EXCEPT !.StandbyPod = StandbyIndex(cluster),
                              !.IsProvisioningStandby = FALSE,
                              !.LastScaleTime = now]
  /\ sts' = TotalReplicas(cluster)
  /\ proto' = ProtoAfter(status')
  /\ UNCHANGED <<metrics, verdict, spec, pods, lastReady, slots, nodes, now, faults>>

JoinSucceeded ==
  /\ Provisioning
  /\ jobs["join"].st = "succeeded"
  /\ \E f \in FaultChoices({"delete"}) :
       /\ jobs' = IF f = "delete" THEN jobs ELSE DeleteJob(jobs, "join")
       /\ faults' = FaultsAfter(f)
  /\ status' = [status EXCEPT !.StandbyPod = StandbyIndex(cluster),
                              !.IsProvisioningStandby = FALSE]
  /\ sts' = TotalReplicas(cluster)
  /\ proto' = ProtoAfter(status')
  /\ UNCHANGED <<metrics, verdict, spec, pods, lastReady, slots, nodes, now>>

JoinFailed ==
  /\ Provisioning
  /\ jobs["join"].st = "failed"
  /\ \E f \in FaultChoices({"status", "delete"}) :
       /\ jobs' = IF f = "delete" THEN jobs ELSE DeleteJob(jobs, "join")
       /\ status' = IF f = "status" THEN status
                    ELSE [status EXCEPT !.IsProvisioningStandby = FALSE]
       /\ faults' = FaultsAfter(f)
  /\ sts' = TotalReplicas(cluster)
  /\ proto' = ProtoAfter(status')
  /\ UNCHANGED <<metrics, verdict, spec, pods, lastReady, slots, nodes, now>>

----------------------------------------------------------------------------
\* checkDrainStatus (downscale.go)

Draining == AutoScaling /\ status.IsDraining

ClearDrain(st) ==
  [st EXCEPT !.IsDraining = FALSE, !.PodToDrain = NoPod,
             !.DrainDestPod1 = NoPod, !.DrainDestPod2 = NoPod]

\* no drain job: create it, or give up when the drain info is incomplete or
\* names the standby
DrainNoJob ==
  /\ Draining
  /\ jobs["drain"].st = "none"
  /\ sts' = TotalReplicas(cluster)
  /\ IF \/ status.PodToDrain = NoPod \/ status.DrainDestPod1 = NoPod
        \/ status.PodToDrain = status.StandbyPod
     THEN /\ status' = ClearDrain(status)
          /\ jobs' = jobs
     ELSE /\ status' = status
          /\ jobs' = CreateJob(jobs, "drain",
                       <<status.PodToDrain, status.DrainDestPod1,
                         status.DrainDestPod2, status.StandbyPod>>)
  /\ proto' = ProtoAfter(status')
  /\ UNCHANGED <<metrics, verdict,
                 spec, pods, lastReady, slots, nodes, now, faults>>

\* the drain job succeeded and there is no cleanup job yet
CreateCleanupJob ==
  /\ Draining
  /\ jobs["drain"].st = "succeeded"
  /\ jobs["cleanup"].st = "none"
  /\ sts' = TotalReplicas(cluster)
  /\ jobs' = CreateJob(jobs, "cleanup",
               <<(cluster.Masters - 1) * (1 + cluster.ReplicasPerMaster),
                 cluster.Masters * (1 + cluster.ReplicasPerMaster)>>)
  /\ UNCHANGED <<metrics, verdict,
                 spec, status, pods, lastReady, slots, nodes, now, faults, proto>>

\* the cleanup job failed: delete it, the next tick creates it again
CleanupFailed ==
  /\ Draining
  /\ jobs["drain"].st = "succeeded"
  /\ jobs["cleanup"].st = "failed"
  /\ sts' = TotalReplicas(cluster)
  /\ jobs' = DeleteJob(jobs, "cleanup")
  /\ UNCHANGED <<metrics, verdict,
                 spec, status, pods, lastReady, slots, nodes, now, faults, proto>>

\* CleanupSucceeded writing the status although the spec write failed
CleanupSucceeded_StatusFirst ==
  /\ Draining
  /\ jobs["drain"].st = "succeeded"
  /\ jobs["cleanup"].st = "succeeded"
  /\ \E f \in FaultChoices({"spec"}) :
       /\ spec' = IF f = "spec" THEN spec ELSE [cluster EXCEPT !.Masters = @ - 1]
       /\ faults' = FaultsAfter(f)
  /\ sts' = TotalReplicas(SetDefaults(spec'))
  /\ status' = [ClearDrain(status) EXCEPT !.StandbyPod = status.PodToDrain,
                                          !.LastScaleTime = now]
  /\ jobs' = DeleteJob(DeleteJob(jobs, "drain"), "cleanup")
  /\ proto' = ProtoAfter(status')
  /\ UNCHANGED <<metrics, verdict, pods, lastReady, slots, nodes, now>>

\* drain and cleanup succeeded: Masters--, StatefulSet, status, delete both
CleanupSucceeded ==
  /\ Draining
  /\ jobs["drain"].st = "succeeded"
  /\ jobs["cleanup"].st = "succeeded"
  /\ \E f \in FaultChoices({"spec", "sts", "status", "delete"}) :
       LET newSpec == [cluster EXCEPT !.Masters = @ - 1]
           drainedPod == status.PodToDrain
       IN /\ spec' = IF f = "spec" THEN spec ELSE newSpec
          /\ sts' = IF f \in {"spec", "sts"} THEN TotalReplicas(cluster)
                    ELSE TotalReplicas(newSpec)
          /\ status' = IF f \in {"spec", "status"} THEN status
                       ELSE [ClearDrain(status) EXCEPT !.StandbyPod = drainedPod,
                                                       !.LastScaleTime = now]
          /\ jobs' = IF f \in {"spec", "status", "delete"} THEN jobs
                     ELSE DeleteJob(DeleteJob(jobs, "drain"), "cleanup")
          /\ faults' = FaultsAfter(f)
  /\ proto' = ProtoAfter(status')
  /\ UNCHANGED <<metrics, verdict, pods, lastReady, slots, nodes, now>>

\* DrainFailed leaving the drain witness fields as they are
DrainFailed_KeepsVictim ==
  /\ Draining
  /\ jobs["drain"].st = "failed"
  /\ jobs' = DeleteJob(jobs, "drain")
  /\ status' = [status EXCEPT !.IsDraining = FALSE]
  /\ sts' = TotalReplicas(cluster)
  /\ proto' = ProtoAfter(status')
  /\ UNCHANGED <<metrics, verdict, spec, pods, lastReady, slots, nodes, now, faults>>

\* the drain job failed: delete it and go back to monitoring
DrainFailed ==
  /\ Draining
  /\ jobs["drain"].st = "failed"
  /\ \E f \in FaultChoices({"status", "delete"}) :
       /\ jobs' = IF f = "delete" THEN jobs ELSE DeleteJob(jobs, "drain")
       /\ status' = IF f = "status" THEN status ELSE ClearDrain(status)
       /\ faults' = FaultsAfter(f)
  /\ sts' = TotalReplicas(cluster)
  /\ proto' = ProtoAfter(status')
  /\ UNCHANGED <<metrics, verdict, spec, pods, lastReady, slots, nodes, now>>

----------------------------------------------------------------------------

Next ==
  \/ PodCreate \/ PodBecomesReady \/ PodDelete \/ ClockTick
  \/ BootstrapJobEnds \/ ReshardJobEnds \/ JoinJobEnds \/ DrainJobEnds \/ CleanupJobEnds
  \/ WaitForReplicas \/ CreateBootstrapJob \/ BootstrapSucceeded
  \/ UpdateStandbyPod \/ triggerScaleUp \/ triggerScaleDown
  \/ ReshardNoJob \/ ReshardSucceeded \/ ReshardFailed
  \/ CreateJoinJob \/ JoinSucceeded \/ JoinFailed
  \/ DrainNoJob \/ CreateCleanupJob \/ CleanupFailed \/ CleanupSucceeded \/ DrainFailed

Spec == Init /\ [][Next]_vars

----------------------------------------------------------------------------
\* The decision engine alone: the samples are drawn at the start, for a
\* bootstrapped cluster of DefaultMinMasters masters and its standby; the
\* action applies queryPodMetrics and the decision function to them.

DecisionSpec == UserSpec(DefaultMinMasters)

\* the master pods of that cluster, the standby among them
DecisionPods ==
  {i * (1 + SetDefaults(DecisionSpec).ReplicasPerMaster) : i \in 0 .. DefaultMinMasters}

\* usages at and around the thresholds
CpuUsages == {ExampleCpuThreshold, ExampleCpuThreshold + 1}
MemoryUsages ==
  {DefaultMemoryThreshold, DefaultMemoryThreshold + 1, DefaultMemoryThreshold + 2}

\* sequences of at most n samples, no pod twice
RECURSIVE Samples(_)
Samples(n) ==
  IF n = 0 THEN {<<>>}
  ELSE LET prev == Samples(n - 1)
           sampled(q) == {q[i].PodName : i \in 1 .. Len(q)}
       IN prev \cup
          UNION {{Append(q, PodLoad(p, cpu, mem)) :
                    p \in DecisionPods \ sampled(q),
                    cpu \in CpuUsages, mem \in MemoryUsages} :
                   q \in {x \in prev : Len(x) = n - 1}}

InitDecision ==
  /\ spec = DecisionSpec
  /\ status = [EmptyStatus EXCEPT !.Initialized = TRUE,
                                  !.StandbyPod = StandbyIndex(SetDefaults(DecisionSpec))]
  /\ sts = TotalReplicas(SetDefaults(DecisionSpec))
  /\ pods = TotalReplicas(SetDefaults(DecisionSpec))
  /\ lastReady = TRUE
  /\ jobs = [j \in JobNames |-> NoJob]
  /\ slots = EvenSlots(DecisionPods \ {status.StandbyPod}, DefaultMinMasters)
  /\ nodes = DecisionPods
  /\ now = 0
  /\ faults = 0
  /\ proto = NoProto
  /\ metrics \in Samples(MaxSamples)
  /\ verdict = NoVerdict

\* monitorMetrics: queryPodMetrics, then checkScaleUpCondition
DecideScaleUp ==
  /\ verdict = NoVerdict
  /\ verdict' = [kind |-> "up",
                 result |-> checkScaleUpCondition(
                              cluster, queryPodMetrics(metrics, status.StandbyPod))]
  /\ UNCHANGED <<spec, status, sts, pods, lastReady, jobs, slots, nodes, now, faults,
                 proto, metrics>>

NextDecision == DecideScaleUp

SpecDecision == InitDecision /\ [][NextDecision]_vars

----------------------------------------------------------------------------
\* The shrink decision alone: a bootstrapped cluster at MinMasters or one
\* above it, samples at and just under the low thresholds; one action applies
\* queryPodMetrics and checkScaleDownCondition, the other goes on, as
\* monitorMetrics does, to the drain plan of triggerScaleDown.

ShrinkSpecs == {UserSpec(m) : m \in DefaultMinMasters .. DefaultMinMasters + 1}

\* the master pods of the cluster of spec s, the standby among them
ShrinkPods(s) ==
  {i * (1 + SetDefaults(s).ReplicasPerMaster) : i \in 0 .. s.Masters}

LowCpuUsages == {DefaultCpuThresholdLow - 1, DefaultCpuThresholdLow}
LowMemoryUsages == {DefaultMemoryThresholdLow - 1, DefaultMemoryThresholdLow}

\* sequences of at most n samples of the pods of P, no pod twice
RECURSIVE LowSamples(_, _)
LowSamples(n, P) ==
  IF n = 0 THEN {<<>>}
  ELSE LET prev == LowSamples(n - 1, P)
           sampled(q) == {q[i].PodName : i \in 1 .. Len(q)}
       IN prev \cup
          UNION {{Append(q, PodLoad(p, cpu, mem)) :
                    p \in P \ sampled(q),
                    cpu \in LowCpuUsages, mem \in LowMemoryUsages} :
                   q \in {x \in prev : Len(x) = n - 1}}

InitShrink ==
  /\ spec \in ShrinkSpecs
  /\ status = [EmptyStatus EXCEPT !.Initialized = TRUE,
                                  !.StandbyPod = StandbyIndex(SetDefaults(spec))]
  /\ sts = TotalReplicas(SetDefaults(spec))
  /\ pods = TotalReplicas(SetDefaults(spec))
  /\ lastReady = TRUE
  /\ jobs = [j \in JobNames |-> NoJob]
  /\ slots = EvenSlots(ShrinkPods(spec) \ {status.StandbyPod}, spec.Masters)
  /\ nodes = ShrinkPods(spec)
  /\ now = 0
  /\ faults = 0
  /\ proto = NoProto
  /\ metrics \in LowSamples(MaxSamples, ShrinkPods(spec))
  /\ verdict = NoVerdict

\* monitorMetrics: queryPodMetrics, then checkScaleDownCondition
DecideScaleDown ==
  /\ verdict = NoVerdict
  /\ verdict' = [kind |-> "down",
                 result |-> checkScaleDownCondition(
                              cluster, queryPodMetrics(metrics, status.StandbyPod))]
  /\ UNCHANGED <<spec, status, sts, pods, lastReady, jobs, slots, nodes, now, faults,
                 proto, metrics>>

\* monitorMetrics with a shrink verdict: the plan triggerScaleDown records
DecideDrainPlan ==
  /\ verdict = NoVerdict
  /\ LET podLoads == queryPodMetrics(metrics, status.StandbyPod)
     IN /\ Len(podLoads) # 0
        /\ ~checkScaleUpCondition(cluster, podLoads).shouldScaleUp
        /\ checkScaleDownCondition(cluster, podLoads)
        /\ \E plan \in DrainPlans(cluster, podLoads) :
             verdict' = [kind |-> "plan", result |-> plan]
  /\ UNCHANGED <<spec, status, sts, pods, lastReady, jobs, slots, nodes, now, faults,
                 proto, metrics>>

NextShrink == DecideScaleDown \/ DecideDrainPlan

SpecShrink == InitShrink /\ [][NextShrink]_vars

----------------------------------------------------------------------------
\* The shrink decision on samples that include a replica: Prometheus reports
\* every pod of the StatefulSet, the first master's replica among them.

\* the master pods of the cluster of spec s and the replica next to pod 0
DrainPods(s) == ShrinkPods(s) \cup {1}

InitDrain ==
  /\ spec \in ShrinkSpecs
  /\ status = [EmptyStatus EXCEPT !.Initialized = TRUE,
                                  !.StandbyPod = StandbyIndex(SetDefaults(spec))]
  /\ sts = TotalReplicas(SetDefaults(spec))
  /\ pods = TotalReplicas(SetDefaults(spec))
  /\ lastReady = TRUE
  /\ jobs = [j \in JobNames |-> NoJob]
  /\ slots = EvenSlots(ShrinkPods(spec) \ {status.StandbyPod}, spec.Masters)
  /\ nodes = ShrinkPods(spec)
  /\ now = 0
  /\ faults = 0
  /\ proto = NoProto
  /\ metrics \in LowSamples(MaxSamples, DrainPods(spec))
  /\ verdict = NoVerdict

SpecDrain == InitDrain /\ [][NextShrink]_vars

----------------------------------------------------------------------------
\* monitorMetrics on incomplete samples: Prometheus may have a CPU sample, a
\* memory sample, or both for a pod.  The raw samples are a sequence in the
\* order the CPU map is iterated, a missing value being NoSample.

NoSample == -1

HasCpu(l) == l.CPUUsage # NoSample
HasMemory(l) == l.MemoryUsage # NoSample

\* queryCPUMetrics and queryMemoryMetrics return an error on an empty vector
QueryFails(raw) ==
  \/ \A i \in 1 .. Len(raw) : ~HasCpu(raw[i])
  \/ \A i \in 1 .. Len(raw) : ~HasMemory(raw[i])

\* the loop of queryPodMetrics with the memory lookup's ok left unchecked:
\* a pod without a memory sample gets the zero value
JoinedSamples_ZeroMemory(raw) ==
  LET withCpu == SelectSeq(raw, HasCpu)
  IN [i \in 1 .. Len(withCpu) |->
        IF HasMemory(withCpu[i]) THEN withCpu[i]
        ELSE [withCpu[i] EXCEPT !.MemoryUsage = 0]]

\* the loop of queryPodMetrics: the pods of the CPU map that are in the
\* memory map too
JoinedSamples(raw) == SelectSeq(raw, LAMBDA l : HasCpu(l) /\ HasMemory(l))

\* <<cpu, memory>> of a pod: memory only, hot with CPU only, hot, idle
RawUsages ==
  {<<NoSample, Idle.MemoryUsage>>, <<Hot.CPUUsage, NoSample>>,
   <<Hot.CPUUsage, Hot.MemoryUsage>>, <<Idle.CPUUsage, Idle.MemoryUsage>>}

\* sequences of at most n raw samples of the pods of P, no pod twice
RECURSIVE RawSamples(_, _)
RawSamples(n, P) ==
  IF n = 0 THEN {<<>>}
  ELSE LET prev == RawSamples(n - 1, P)
           sampled(q) == {q[i].PodName : i \in 1 .. Len(q)}
       IN prev \cup
          UNION {{Append(q, PodLoad(p, u[1], u[2])) :
                    p \in P \ sampled(q), u \in RawUsages} :
                   q \in {x \in prev : Len(x) = n - 1}}

InitStarve ==
  /\ spec \in ShrinkSpecs
  /\ status = [EmptyStatus EXCEPT !.Initialized = TRUE,
                                  !.StandbyPod = StandbyIndex(SetDefaults(spec))]
  /\ sts = TotalReplicas(SetDefaults(spec))
  /\ pods = TotalReplicas(SetDefaults(spec))
  /\ lastReady = TRUE
  /\ jobs = [j \in JobNames |-> NoJob]
  /\ slots = EvenSlots(ShrinkPods(spec) \ {status.StandbyPod}, spec.Masters)
  /\ nodes = ShrinkPods(spec)
  /\ now = 0
  /\ faults = 0
  /\ proto = NoProto
  /\ metrics \in RawSamples(MaxSamples, ShrinkPods(spec))
  /\ verdict = NoVerdict

\* MonitorSamples with the two conditions in the other order: the scale-down
\* condition is tried first
MonitorSamples_ShrinkFirst ==
  /\ verdict = NoVerdict
  /\ MetricsRead
  /\ LET failed == QueryFails(metrics)
         podLoads == IF failed THEN <<>>
                     ELSE queryPodMetrics(JoinedSamples(metrics), status.StandbyPod)
         up == checkScaleUpCondition(cluster, podLoads)
         plans == IF failed \/ Len(podLoads) = 0
                     \/ ~checkScaleDownCondition(cluster, podLoads)
                  THEN {}
                  ELSE DrainPlans(cluster, podLoads)
     IN /\ verdict' = [kind |-> "monitor", err |-> failed, loads |-> podLoads]
        /\ IF plans # {}
           THEN \E plan \in plans :
                  status' = [status EXCEPT !.IsDraining = TRUE,
                                           !.PodToDrain = plan.pod,
                                           !.DrainDestPod1 = plan.dest1,
                                           !.DrainDestPod2 = plan.dest2]
           ELSE IF ~failed /\ Len(podLoads) # 0 /\ up.shouldScaleUp
           THEN status' = [status EXCEPT !.IsResharding = TRUE,
                                         !.OverloadedPod = up.triggerPod.PodName]
           ELSE status' = status
  /\ UNCHANGED <<spec, sts, pods, lastReady, jobs, slots, nodes, now, faults, proto,
                 metrics>>

\* monitorMetrics from queryPodMetrics on: a failed query or an empty load
\* list ends the tick, else the scale-up and then the scale-down condition
\* are tried
MonitorSamples ==
  /\ verdict = NoVerdict
  /\ MetricsRead
  /\ LET failed == QueryFails(metrics)
         podLoads == IF failed THEN <<>>
                     ELSE queryPodMetrics(JoinedSamples(metrics), status.StandbyPod)
         up == checkScaleUpCondition(cluster, podLoads)
         plans == IF failed \/ Len(podLoads) = 0 \/ up.shouldScaleUp
                     \/ ~checkScaleDownCondition(cluster, podLoads)
                  THEN {}
                  ELSE DrainPlans(cluster, podLoads)
     IN /\ verdict' = [kind |-> "monitor", err |-> failed, loads |-> podLoads]
        /\ IF ~failed /\ Len(podLoads) # 0 /\ up.shouldScaleUp
           THEN status' = [status EXCEPT !.IsResharding = TRUE,
                                         !.OverloadedPod = up.triggerPod.PodName]
           ELSE IF plans # {}
           THEN \E plan \in plans :
                  status' = [status EXCEPT !.IsDraining = TRUE,
                                           !.PodToDrain = plan.pod,
                                           !.DrainDestPod1 = plan.dest1,
                                           !.DrainDestPod2 = plan.dest2]
           ELSE status' = status
  /\ UNCHANGED <<spec, sts, pods, lastReady, jobs, slots, nodes, now, faults, proto,
                 metrics>>

NextStarve == MonitorSamples

SpecStarve == InitStarve /\ [][NextStarve]_vars

----------------------------------------------------------------------------
\* Specs a user can create, valid and not.  After SetDefaults the four
\* invalid ones have cpuThreshold = cpuThresholdLow, memoryThreshold =
\* memoryThresholdLow, masters < minMasters, and existingCluster without a
\* podSelector.

InvalidSpecs ==
  {[UserSpec(DefaultMinMasters) EXCEPT !.CpuThreshold = DefaultCpuThresholdLow],
   [UserSpec(DefaultMinMasters) EXCEPT !.MemoryThreshold = DefaultMemoryThresholdLow],
   [UserSpec(DefaultMinMasters) EXCEPT !.MinMasters = DefaultMinMasters + 1],
   [UserSpec(DefaultMinMasters) EXCEPT !.ExistingCluster = TRUE]}

TickSpecs == {UserSpec(m) : m \in DefaultMinMasters .. MaxMasters} \cup InvalidSpecs

\* the reconcile loop started on any of these specs
InitTick ==
  /\ spec \in TickSpecs
  /\ status = EmptyStatus
  /\ sts = NoSts
  /\ pods = 0
  /\ lastReady = TRUE
  /\ jobs = [j \in JobNames |-> NoJob]
  /\ slots = [o \in Ordinals |-> 0]
  /\ nodes = {}
  /\ now = 0
  /\ faults = 0
  /\ proto = NoProto
  /\ metrics = <<>>
  /\ verdict = NoVerdict

SpecTick == InitTick /\ [][Next]_vars

----------------------------------------------------------------------------
\* The reconcile loop with a user who switches autoScaleEnabled off and on.

UserSetsAutoScale ==
  /\ spec' = [spec EXCEPT !.AutoScaleEnabled = ~@]
  /\ UNCHANGED <<status, sts, pods, lastReady, jobs, slots, nodes, now, faults, proto,
                 metrics, verdict>>

NextToggle == Next \/ UserSetsAutoScale

SpecToggle == Init /\ [][NextToggle]_vars

----------------------------------------------------------------------------
\* Discovery of an existing cluster: existingCluster = true with a
\* podSelector, the status empty or with a standby pod name patched in by
\* hand (the documented workaround).

ExistingSpec(m) == [UserSpec(m) EXCEPT !.ExistingCluster = TRUE, !.PodSelector = TRUE]

InitExisting ==
  /\ spec \in {ExistingSpec(m) : m \in DefaultMinMasters .. MaxMasters}
  /\ status \in {EmptyStatus,
                  [EmptyStatus EXCEPT !.StandbyPod = StandbyIndex(cluster)]}
  /\ sts = NoSts
  /\ pods = 0
  /\ lastReady = TRUE
  /\ jobs = [j \in JobNames |-> NoJob]
  /\ slots = [o \in Ordinals |-> 0]
  /\ nodes = {}
  /\ now = 0
  /\ faults = 0
  /\ proto = NoProto
  /\ metrics = <<>>
  /\ verdict = NoVerdict

NextExisting == DiscoverExisting \/ PodCreate \/ PodBecomesReady

SpecExisting == InitExisting /\ [][NextExisting]_vars

\* the controller is requeued for as long as discovery has not succeeded,
\* and the StatefulSet controller keeps starting pods
FairExisting ==
  /\ SpecExisting
  /\ WF_vars(DiscoverExisting) /\ WF_vars(PodCreate) /\ WF_vars(PodBecomesReady)

----------------------------------------------------------------------------
\* The reconcile loop on a cluster that has scaled before: Initialized and
\* Stable, the last scaling stamped one cooldown before the clock starts,
\* so that checkCooldownPeriod passes.  The Delete of the earlier
\* reshard job is fire-and-forget (its error is dropped), so the succeeded
\* job may still be there.  The same holds for the join-nodes job of that
\* scale-up and for the drain and cleanup-standby jobs of an earlier
\* scale-down.

StaleReshardJob ==
  [st |-> "succeeded",
   args |-> <<0, StandbyIndex(SetDefaults(UserSpec(DefaultMinMasters)))>>]

\* the join-nodes job that added the present standby of the cluster of spec s
StaleJoinJob(s) == [st |-> "succeeded", args |-> <<StandbyIndex(s)>>]

\* the drain job that emptied the present standby, and the cleanup job that
\* removed the standby before it
StaleDrainJob(s) ==
  [st |-> "succeeded",
   args |-> <<StandbyIndex(s), 0, 1 + s.ReplicasPerMaster,
              StandbyIndex(s) + 1 + s.ReplicasPerMaster>>]
StaleCleanupJob(s) ==
  [st |-> "succeeded",
   args |-> <<StandbyIndex(s), StandbyIndex(s) + 1 + s.ReplicasPerMaster>>]

\* what the earlier protocol can have left behind: nothing, the jobs of a
\* scale-up, one of them, or the jobs of a scale-down
Leftovers(s) ==
  LET none == [j \in JobNames |-> NoJob]
  IN {none,
      [none EXCEPT !["reshard"] = StaleReshardJob],
      [none EXCEPT !["join"] = StaleJoinJob(s)],
      [none EXCEPT !["reshard"] = StaleReshardJob, !["join"] = StaleJoinJob(s)],
      [none EXCEPT !["drain"] = StaleDrainJob(s), !["cleanup"] = StaleCleanupJob(s)]}

InitStale ==
  /\ spec \in {SetDefaults(s) : s \in ShrinkSpecs}
  /\ status = [EmptyStatus EXCEPT !.Initialized = TRUE,
                                  !.StandbyPod = StandbyIndex(spec),
                                  !.LastScaleTime = 0 - spec.ScaleCooldownSeconds]
  /\ sts = TotalReplicas(spec)
  /\ pods = TotalReplicas(spec)
  /\ lastReady = TRUE
  /\ \E left \in Leftovers(spec) :
       jobs = [left EXCEPT
                 !["bootstrap"] = [st |-> "succeeded",
                                   args |-> <<spec.Masters, spec.ReplicasPerMaster>>]]
  /\ slots = EvenSlots(ShrinkPods(spec) \ {status.StandbyPod}, spec.Masters)
  /\ nodes = ShrinkPods(spec)
  /\ now = 0
  /\ faults = 0
  /\ proto = NoProto
  /\ metrics = <<>>
  /\ verdict = NoVerdict

NextStale ==
  \/ PodCreate \/ PodBecomesReady \/ PodDelete \/ ClockTick
  \/ ReshardJobEnds \/ JoinJobEnds \/ DrainJobEnds \/ CleanupJobEnds
  \/ WaitForReplicas
  \/ UpdateStandbyPod \/ triggerScaleUp \/ triggerScaleDown
  \/ ReshardNoJob \/ ReshardSucceeded \/ ReshardFailed
  \/ CreateJoinJob \/ JoinSucceeded \/ JoinFailed
  \/ DrainNoJob \/ CreateCleanupJob \/ CleanupFailed \/ CleanupSucceeded \/ DrainFailed

SpecStale == InitStale /\ [][NextStale]_vars

----------------------------------------------------------------------------
\* The reconcile loop on a running cluster whose slots are spread unevenly:
\* the first primary holds FewSlots of them, its neighbour the rest of its
\* share (slots can be moved by hand with redis-cli at any time).

FewSlotChoices == 1 .. 3

InitSkewed ==
  /\ spec \in {SetDefaults(s) : s \in ShrinkSpecs}
  /\ status = [EmptyStatus EXCEPT !.Initialized = TRUE,
                                  !.StandbyPod = StandbyIndex(spec)]
  /\ sts = TotalReplicas(spec)
  /\ pods = TotalReplicas(spec)
  /\ lastReady = TRUE
  /\ jobs = [j \in JobNames |->
               IF j = "bootstrap"
               THEN [st |-> "succeeded", args |-> <<spec.Masters, spec.ReplicasPerMaster>>]
               ELSE NoJob]
  /\ \E few \in FewSlotChoices :
       LET even == EvenSlots(ShrinkPods(spec) \ {status.StandbyPod}, spec.Masters)
       IN slots = Reshard(even, 0, 1 + spec.ReplicasPerMaster, even[0] - few)
  /\ nodes = ShrinkPods(spec)
  /\ now = 0
  /\ faults = 0
  /\ proto = NoProto
  /\ metrics = <<>>
  /\ verdict = NoVerdict

SpecSkewed == InitSkewed /\ [][NextStale]_vars

----------------------------------------------------------------------------
\* reconcileInfrastructure alone: the user creates a cluster with any
\* replicasPerMaster the CRD admits (minimum 0); the ticks write the
\* StatefulSet and the StatefulSet controller starts the pods.

ReplicaChoices == 0 .. DefaultReplicasPerMaster + 1

InitReplicas ==
  /\ spec \in {[UserSpec(m) EXCEPT !.ReplicasPerMaster = r] :
                 m \in DefaultMinMasters .. MaxMasters, r \in ReplicaChoices}
  /\ status = EmptyStatus
  /\ sts = NoSts
  /\ pods = 0
  /\ lastReady = TRUE
  /\ jobs = [j \in JobNames |-> NoJob]
  /\ slots = [o \in Ordinals |-> 0]
  /\ nodes = {}
  /\ now = 0
  /\ faults = 0
  /\ proto = NoProto
  /\ metrics = <<>>
  /\ verdict = NoVerdict

NextReplicas == WaitForReplicas \/ PodCreate \/ PodBecomesReady

SpecReplicas == InitReplicas /\ [][NextReplicas]_vars

----------------------------------------------------------------------------
\* What Reconcile returns.  The results of one tick on the current state:
\* [err, cause], err = the error returned is not nil.  Every tick reads and
\* writes through the API, and any of these calls can fail.

TickResult(err, cause) == [err |-> err, cause |-> cause]

\* handleBootstrap, managed cluster, every replica Ready, not Initialized
BootstrapResults ==
  CASE jobs["bootstrap"].st = "failed" -> {TickResult(TRUE, "bootstrap job failed")}
    [] OTHER -> {TickResult(FALSE, "none")}

\* monitorMetrics: a failed Prometheus query is returned as an error
MonitorResults ==
  {TickResult(FALSE, "none")} \cup
  (IF MetricsRead THEN {TickResult(TRUE, "metrics query failed")} ELSE {})

ReconcileResults ==
  {TickResult(TRUE, "api call failed")} \cup
  (IF ~ValidateSpec(cluster) THEN {TickResult(TRUE, "invalid spec")}
   ELSE IF ~AllReplicasReady THEN {TickResult(FALSE, "none")}
   ELSE IF ~status.Initialized THEN BootstrapResults
   ELSE IF ~cluster.AutoScaleEnabled THEN {TickResult(FALSE, "none")}
   ELSE IF Stable(status) THEN MonitorResults
   ELSE {TickResult(FALSE, "none")})

\* the states a tick is applied to: a cluster being created, bootstrapped,
\* Stable inside or outside the cooldown, or in a reshard or drain phase
\* with its job in any state; or an invalid spec nothing was created for
TickStages ==
  {"creating", "bootstrap", "stable", "resharding", "draining"}

InitReturn ==
  \E sp \in TickSpecs, stage \in TickStages, js \in {"none", "running", "succeeded", "failed"},
     t \in {NoTime, 0} :
    LET c == SetDefaults(sp)
        total == TotalReplicas(c)
        built == stage # "creating" /\ ValidateSpec(c)
        done == built /\ stage # "bootstrap"
        active == {i * (1 + c.ReplicasPerMaster) : i \in 0 .. (c.Masters - 1)}
    IN /\ ~ValidateSpec(c) => (stage = "creating" /\ js = "none" /\ t = NoTime)
       /\ stage = "creating" => (js = "none" /\ t = NoTime)
       /\ stage = "bootstrap" => t = NoTime
       /\ stage = "draining" => c.Masters > c.MinMasters
       /\ spec = sp
       /\ sts = IF ValidateSpec(c) THEN total ELSE NoSts
       /\ pods \in IF built THEN {total} ELSE IF ValidateSpec(c) THEN 0 .. total ELSE {0}
       /\ lastReady \in IF built THEN {TRUE} ELSE BOOLEAN
       /\ jobs = [j \in JobNames |->
                    IF \/ j = "bootstrap" /\ done
                       \/ j = "cleanup" /\ FALSE
                    THEN [st |-> "succeeded", args |-> <<c.Masters, c.ReplicasPerMaster>>]
                    ELSE IF j = "bootstrap" /\ stage = "bootstrap" /\ js # "none"
                    THEN [st |-> js, args |-> <<c.Masters, c.ReplicasPerMaster>>]
                    ELSE IF j = "reshard" /\ stage = "resharding" /\ js # "none"
                    THEN [st |-> js, args |-> <<0, StandbyIndex(c)>>]
                    ELSE IF j = "drain" /\ stage = "draining" /\ js # "none"
                    THEN [st |-> js,
                          args |-> <<StandbyIndex(c) - (1 + c.ReplicasPerMaster), 0,
                                     NoPod, StandbyIndex(c)>>]
                    ELSE NoJob]
       /\ status =
            IF ~done THEN EmptyStatus
            ELSE [EmptyStatus EXCEPT
                    !.Initialized = TRUE,
                    !.StandbyPod = StandbyIndex(c),
                    !.LastScaleTime = t,
                    !.IsResharding = (stage = "resharding"),
                    !.OverloadedPod = IF stage = "resharding" THEN 0 ELSE NoPod,
                    !.IsDraining = (stage = "draining"),
                    !.PodToDrain = IF stage = "draining"
                                   THEN StandbyIndex(c) - (1 + c.ReplicasPerMaster)
                                   ELSE NoPod,
                    !.DrainDestPod1 = IF stage = "draining" THEN 0 ELSE NoPod]
       /\ slots = IF done THEN EvenSlots(active, c.Masters) ELSE [o \in Ordinals |-> 0]
       /\ nodes = IF done THEN active \cup {StandbyIndex(c)} ELSE {}
       /\ now = 0
       /\ faults = 0
       /\ proto = NoProto
       /\ metrics = <<>>
       /\ verdict = NoVerdict

\* one tick of Reconcile: what it returns
ReconcileReturns ==
  /\ verdict = NoVerdict
  /\ \E r \in ReconcileResults : verdict' = [kind |-> "tick", result |-> r]
  /\ UNCHANGED <<spec, status, sts, pods, lastReady, jobs, slots, nodes, now, faults,
                 proto, metrics>>

NextReturn == ReconcileReturns

SpecReturn == InitReturn /\ [][NextReturn]_vars

----------------------------------------------------------------------------
\* What the claims speak of

MinimumMasters == Max(DefaultMinMasters, cluster.MinMasters)

\* the step ends the reshard phase of a scale-up (checkReshardingStatus wrote
\* the status of its success branch)
ReshardPhaseEnds == status.IsResharding /\ status'.IsProvisioningStandby

\* the step ends a scale-down with success (checkDrainStatus made the
\* drained pod the standby)
ScaleDownEnds ==
  /\ status.IsDraining /\ ~status'.IsDraining
  /\ status'.StandbyPod = status.PodToDrain

\* the data plane as "cluster nodes" shows it: the masters whose pod exists
LivePrimaries == {o \in nodes : PodExists(o)}
EmptyPrimaries == {o \in LivePrimaries : slots[o] = 0}

RECURSIVE SumSlots(_, _)
SumSlots(sl, S) ==
  IF S = {} THEN 0
  ELSE LET o == CHOOSE x \in S : TRUE IN sl[o] + SumSlots(sl, S \ {o})

\* the slots owned by the primaries of the data plane
SlotSum == SumSlots(slots, LivePrimaries)

\* the step is the end of a job with exit status 0
JobCompletes(j) == jobs[j].st = "running" /\ jobs'[j].st = "succeeded"

\* the step ends a scale-up with success (checkProvisioningStatus recorded
\* the new standby)
ScaleUpEnds ==
  /\ status.IsProvisioningStandby /\ ~status'.IsProvisioningStandby
  /\ jobs["join"].st = "succeeded"

ScalingJobs == {"reshard", "drain", "cleanup", "join"}

----------------------------------------------------------------------------
\* C1: Spec.Masters is never below max(3, MinMasters), whatever ticks,
\* aborted ticks and restarts have happened.
MastersNeverBelowMinimum == spec.Masters >= MinimumMasters

\* C2: every protocol changes Spec.Masters by exactly one: no step outside a
\* protocol changes it, no step of a scale-up takes it off {m, m + 1} and no
\* step of a scale-down off {m - 1, m}, m being its value at the trigger; and
\* the step that ends the reshard phase or the scale-down leaves it at m + 1
\* or m - 1.
MastersChangeByOnePerProtocol ==
  [][/\ proto.kind = "none" => spec'.Masters = spec.Masters
     /\ proto.kind = "up" =>
          /\ spec'.Masters \in {proto.masters, proto.masters + 1}
          /\ ReshardPhaseEnds => spec'.Masters = proto.masters + 1
     /\ proto.kind = "down" =>
          /\ spec'.Masters \in {proto.masters - 1, proto.masters}
          /\ ScaleDownEnds => spec'.Masters = proto.masters - 1]_vars

\* C3: at most one of IsResharding, IsProvisioningStandby and IsDraining is
\* true in the persisted status.
AtMostOneProtocolFlag ==
  Cardinality({f \in {"IsResharding", "IsProvisioningStandby", "IsDraining"} :
                 status[f]}) <= 1

\* the reshard phase has handed over to the provisioning phase
C3_Provisioning ==
  /\ status.IsProvisioningStandby /\ ~status.IsResharding
  /\ proto.kind = "up" /\ spec.Masters = proto.masters + 1
  /\ jobs["join"].st = "running"

StableTopology ==
  Monitoring =>
    /\ Cardinality(LivePrimaries) = spec.Masters + 1
    /\ EmptyPrimaries = {status.StandbyPod}

\* C6: a step from Stable into a scaling protocol is taken only when
\* LastScaleTime is unset or now - LastScaleTime >= ScaleCooldownSeconds, and
\* while the cooldown runs a tick in Stable leaves the status unchanged.
CooldownRespected ==
  [][/\ (Stable(status) /\ ~Stable(status')) =>
          \/ status.LastScaleTime = NoTime
          \/ now - status.LastScaleTime >= cluster.ScaleCooldownSeconds
     /\ (/\ status.Initialized /\ Stable(status)
         /\ status.LastScaleTime # NoTime
         /\ now - status.LastScaleTime < cluster.ScaleCooldownSeconds) =>
          status' = status]_vars

\* a protocol was triggered after the cooldown of an earlier one had run out
C6_TriggeredAfterCooldown ==
  /\ status.IsDraining \/ status.IsResharding
  /\ status.LastScaleTime # NoTime
  /\ now - status.LastScaleTime >= cluster.ScaleCooldownSeconds
  /\ jobs["drain"].st = "none" /\ jobs["reshard"].st = "none"

\* C7: when a reshard job or a drain job completes, the hash slots owned by
\* the primaries add up to the slot space, 16384.
SlotsConserved ==
  [][(JobCompletes("reshard") \/ JobCompletes("drain")) =>
       SlotSum' = SlotSpace]_vars

\* a drain has moved the victim's slots to two destinations
C7_DrainedToTwo ==
  /\ jobs["drain"].st = "succeeded"
  /\ jobs["drain"].args[3] # NoPod
  /\ jobs["drain"].args[1] \in LivePrimaries
  /\ slots[jobs["drain"].args[1]] = 0
  /\ slots[jobs["drain"].args[2]] > SlotSpace \div spec.Masters
  /\ slots[jobs["drain"].args[3]] > SlotSpace \div spec.Masters
  /\ SlotSum = SlotSpace

ResumedScaleUpEndsAlike ==
  [][ScaleUpEnds =>
       /\ spec'.Masters = proto.masters + 1
       /\ status'.StandbyPod = (proto.masters + 1) * (1 + cluster.ReplicasPerMaster)
       /\ Stable(status')
       /\ slots'[proto.standby] > 0
       /\ Cardinality(LivePrimaries') = proto.masters + 2
       /\ EmptyPrimaries' = {status'.StandbyPod}]_vars

\* C10: checkScaleUpCondition returns a grow verdict if and only if some
\* active primary, the standby excluded, has cpu > CpuThreshold or memory >
\* MemoryThreshold, and the trigger pod it returns has the highest memory
\* usage among the pods over a threshold.
ScaleUpVerdict ==
  verdict.kind = "up" =>
    LET active == {i \in 1 .. Len(metrics) : metrics[i].PodName # status.StandbyPod}
        over == {i \in active : \/ metrics[i].CPUUsage > cluster.CpuThreshold
                                \/ metrics[i].MemoryUsage > cluster.MemoryThreshold}
    IN /\ verdict.result.shouldScaleUp <=> over # {}
       /\ verdict.result.shouldScaleUp =>
            \E i \in over :
              /\ verdict.result.triggerPod = metrics[i]
              /\ \A j \in over : metrics[j].MemoryUsage <= metrics[i].MemoryUsage

\* a grow verdict for a pod over the CPU threshold only; a second pod sits
\* exactly at both thresholds and the standby's sample, over the memory
\* threshold, is skipped
C10_TriggerByCpu ==
  /\ verdict.kind = "up" /\ verdict.result.shouldScaleUp
  /\ Len(metrics) = MaxSamples
  /\ verdict.result.triggerPod = metrics[1]
  /\ metrics[1].CPUUsage > cluster.CpuThreshold
  /\ metrics[1].MemoryUsage = cluster.MemoryThreshold
  /\ metrics[2].CPUUsage = cluster.CpuThreshold
  /\ metrics[2].MemoryUsage = cluster.MemoryThreshold
  /\ metrics[3].PodName = status.StandbyPod
  /\ metrics[3].MemoryUsage > cluster.MemoryThreshold

\* the samples of the active primaries: the standby's sample is not one
ActiveSamples == {i \in 1 .. Len(metrics) : metrics[i].PodName # status.StandbyPod}

\* the active samples under both low thresholds
UnderBothLow ==
  {i \in ActiveSamples : /\ metrics[i].CPUUsage < cluster.CpuThresholdLow
                         /\ metrics[i].MemoryUsage < cluster.MemoryThresholdLow}

ShrinkOnlyWhenAllLow ==
  (verdict.kind = "down" /\ verdict.result) => UnderBothLow = ActiveSamples

ReshardFailureSeen ==
  status.IsResharding /\ ~status.IsDraining /\ jobs["reshard"].st = "failed"

\* a tick of a scale-down finds the drain job failed
DrainFailureSeen == status.IsDraining /\ jobs["drain"].st = "failed"

\* C14: a failed reshard or drain job is answered by a status that is Stable
\* with the witness fields cleared, and Spec.Masters and StandbyPod stay what
\* they were when the protocol was triggered.
FailedJobBackToStable ==
  [][/\ ReshardFailureSeen =>
          /\ spec'.Masters = proto.masters
          /\ status'.StandbyPod = proto.standby
          /\ status' # status =>
               Stable(status') /\ status'.OverloadedPod = NoPod
     /\ DrainFailureSeen =>
          /\ spec'.Masters = proto.masters
          /\ status'.StandbyPod = proto.standby
          /\ status' # status =>
               /\ Stable(status')
               /\ status'.PodToDrain = NoPod
               /\ status'.DrainDestPod1 = NoPod
               /\ status'.DrainDestPod2 = NoPod]_vars

\* the status was written after a drain job failed that could not be deleted
C14_DrainFailureHandled ==
  /\ status.Initialized /\ Stable(status)
  /\ jobs["drain"].st = "failed"
  /\ status.PodToDrain = NoPod /\ status.DrainDestPod1 = NoPod
  /\ status.StandbyPod = jobs["drain"].args[4]
  /\ spec.Masters = DefaultMinMasters + 1

\* C15: the status write that answers a failed reshard or drain job sets
\* LastScaleTime to the time of the failure.
FailureStampsLastScaleTime ==
  [][((ReshardFailureSeen \/ DrainFailureSeen) /\ Stable(status')) =>
       status'.LastScaleTime = now]_vars

JoinFailureIsTerminal ==
  [][(status.IsProvisioningStandby /\ jobs["join"].st = "failed") =>
       ~Stable(status')]_vars

\* C18: a scale-up triggered while the standby owned slots, and a scale-down
\* whose PodToDrain is the standby, never bring the cluster back to Stable.
InvariantViolationIsTerminal ==
  [][(\/ proto.kind = "up" /\ proto.standbySlots > 0
      \/ status.IsDraining /\ status.PodToDrain = status.StandbyPod) =>
       ~Stable(status')]_vars

\* C19: Reconcile never returns an error that is not nil.
ReconcileNeverErrs == verdict.kind = "tick" => ~verdict.result.err

\* C20: a spec that, with the defaults applied, has cpuThreshold <=
\* cpuThresholdLow, memoryThreshold <= memoryThresholdLow, masters <
\* minMasters, or existingCluster without a podSelector, is rejected before
\* anything is written: no step changes the StatefulSet, a job, the spec or
\* the status.
InvalidSpecNoWrites ==
  [][(\/ cluster.CpuThreshold <= cluster.CpuThresholdLow
      \/ cluster.MemoryThreshold <= cluster.MemoryThresholdLow
      \/ cluster.Masters < cluster.MinMasters
      \/ cluster.ExistingCluster /\ ~cluster.PodSelector) =>
       /\ sts' = sts /\ jobs' = jobs
       /\ spec' = spec /\ status' = status]_vars

\* time has passed over a cluster whose memory thresholds are equal:
\* nothing was created for it
C20_RejectedSpec ==
  /\ cluster.MemoryThreshold = cluster.MemoryThresholdLow
  /\ now >= DefaultScaleCooldownSeconds
  /\ sts = NoSts /\ status = EmptyStatus

\* C21: the replica count written to the StatefulSet is (masters + 1) *
\* (replicasPerMaster + 1) computed from the values the user gave, also
\* for replicasPerMaster = 0.
ReplicasFromUserValues ==
  sts # NoSts => sts = (spec.Masters + 1) * (spec.ReplicasPerMaster + 1)

\* the controller, not the user, makes this step
ControllerStep == spec'.AutoScaleEnabled = spec.AutoScaleEnabled

JobCreated(j) == jobs[j].st # "running" /\ jobs'[j].st = "running"

Phase(st) ==
  IF st.IsDraining THEN "ScalingDown"
  ELSE IF st.IsResharding THEN "ScalingUp"
  ELSE IF st.IsProvisioningStandby THEN "ProvisioningStandby"
  ELSE IF st.Initialized THEN "Stable"
  ELSE "Uninitialized"

\* C23: the phase changes along the lifecycle only.  ScalingUp and
\* ScalingDown are entered from Stable; ScalingUp is left for
\* ProvisioningStandby in the tick that sees the succeeded reshard job, and
\* for Stable only when the job has not succeeded; ProvisioningStandby is
\* entered from ScalingUp only and left for Stable; ScalingDown is left for
\* Stable; ScalingUp and ScalingDown never follow each other directly.
PhasesFollowLifecycle ==
  [][Phase(status') # Phase(status) =>
       \/ Phase(status) = "Uninitialized" /\ Phase(status') = "Stable"
       \/ Phase(status) = "Stable" /\ Phase(status') \in {"ScalingUp", "ScalingDown"}
       \/ /\ Phase(status) = "ScalingUp" /\ Phase(status') = "ProvisioningStandby"
          /\ jobs["reshard"].st = "succeeded"
       \/ /\ Phase(status) = "ScalingUp" /\ Phase(status') = "Stable"
          /\ jobs["reshard"].st # "succeeded"
       \/ Phase(status) = "ProvisioningStandby" /\ Phase(status') = "Stable"
       \/ Phase(status) = "ScalingDown" /\ Phase(status') = "Stable"]_vars

\* Stable again after a scale-up that went through provisioning: the new
\* standby has joined
C23_GrownAndStable ==
  /\ Phase(status) = "Stable"
  /\ status.LastScaleTime # NoTime
  /\ spec.Masters = DefaultMinMasters + 1
  /\ status.StandbyPod = StandbyIndex(cluster)
  /\ status.StandbyPod \in nodes
  /\ jobs["join"].st = "none"

\* C24: an existing cluster with an empty status becomes Initialized once
\* discovery finds a Running pod.
DiscoveryInitializes ==
  (cluster.ExistingCluster /\ status = EmptyStatus /\ pods > 0) ~> status.Initialized

\* C25: when a scale-up has completed through provisioning, Status.StandbyPod
\* is the pod at ordinal Masters * (1 + ReplicasPerMaster) for the
\* incremented Masters, and it is not the standby recorded before the
\* scale-up, which now owns slots.
FreshStandbyAfterScaleUp ==
  [][ScaleUpEnds =>
       /\ proto.kind = "up"
       /\ spec'.Masters > proto.masters
       /\ status'.StandbyPod = spec'.Masters * (1 + spec'.ReplicasPerMaster)
       /\ status'.StandbyPod # proto.standby
       /\ proto.standby \in nodes /\ slots[proto.standby] > 0]_vars

\* C26: the completing tick of a protocol writes the spec first and the
\* status second, as two writes.  A step that changes Spec.Masters changes
\* it by one and leaves the status as it was or writes it in its completed
\* form; the completed form is never written by a step that did not write
\* the spec.
SpecBeforeStatus ==
  [][/\ ReshardPhaseEnds => spec'.Masters = spec.Masters + 1
     /\ ScaleDownEnds => spec'.Masters = spec.Masters - 1
     /\ spec'.Masters # spec.Masters =>
          \/ status' = status
          \/ ReshardPhaseEnds /\ ~status'.IsResharding /\ status'.OverloadedPod = NoPod
                /\ status'.LastScaleTime = now
          \/ ScaleDownEnds /\ status'.PodToDrain = NoPod /\ status'.DrainDestPod1 = NoPod
                /\ status'.DrainDestPod2 = NoPod /\ status'.LastScaleTime = now]_vars

\* between the two writes of a scale-down: the spec write succeeded, the
\* status write failed
C26_SpecWrittenStatusNot ==
  /\ status.IsDraining /\ proto.kind = "down"
  /\ spec.Masters = proto.masters - 1
  /\ jobs["cleanup"].st = "succeeded"

\* the step takes a scaling decision
ScalingDecided ==
  \/ ~status.IsResharding /\ status'.IsResharding
  \/ ~status.IsDraining /\ status'.IsDraining

\* C27: a scaling decision is taken only in a tick in which exactly
\* (Masters + 1) * (1 + ReplicasPerMaster) pods are Running and every one of
\* them is Ready; with any other count a Stable cluster's status stays as it
\* is.
DecisionNeedsAllPods ==
  [][/\ ScalingDecided =>
          /\ pods = (cluster.Masters + 1) * (1 + cluster.ReplicasPerMaster)
          /\ lastReady
     /\ (/\ status.Initialized /\ Stable(status)
         /\ ~(pods = (cluster.Masters + 1) * (1 + cluster.ReplicasPerMaster) /\ lastReady)) =>
          status' = status]_vars

\* a scale-down has just been decided, with every pod Running and Ready
C27_DecidedWithAllPods ==
  /\ status.IsDraining /\ jobs["drain"].st = "none"
  /\ proto.kind = "down" /\ spec.Masters = proto.masters
  /\ pods = (cluster.Masters + 1) * (1 + cluster.ReplicasPerMaster)
  /\ lastReady

\* C28: when detection in the health gate yields another pod than
\* Status.StandbyPod, the tick persists the new name and takes no scaling
\* decision: while the stored standby is not the pod at the standby index,
\* no step decides, and a Stable status changes only by taking that pod as
\* its StandbyPod.
StandbyChangeEndsTick ==
  [][(/\ status.Initialized /\ Stable(status)
      /\ status.StandbyPod # cluster.Masters * (1 + cluster.ReplicasPerMaster)) =>
       /\ ~ScalingDecided
       /\ spec' = spec
       /\ \/ status' = status
          \/ status' = [status EXCEPT
                          !.StandbyPod = cluster.Masters * (1 + cluster.ReplicasPerMaster)]]_vars

\* the standby reference was replaced by the health gate: the pod at the
\* standby index is tracked though it never joined the cluster
C28_StandbyReplacedByGate ==
  /\ status.Initialized /\ Stable(status)
  /\ status.StandbyPod = StandbyIndex(cluster)
  /\ status.StandbyPod \notin nodes
  /\ jobs["join"].st = "none"

\* no pod has both a CPU and a memory sample
NoUsableSample ==
  \A i \in 1 .. Len(metrics) : ~(HasCpu(metrics[i]) /\ HasMemory(metrics[i]))

\* C29: without a usable sample (no CPU samples, no memory samples, or no
\* pod with both) the tick leaves spec and status as they are; and the load
\* list of a tick never holds the standby or a pod that lacks one of the two
\* metrics.
StarvationSkipsTick ==
  [][/\ NoUsableSample => (status' = status /\ spec' = spec)
     /\ verdict'.kind = "monitor" =>
          \A i \in 1 .. Len(verdict'.loads) :
            /\ verdict'.loads[i].PodName # status.StandbyPod
            /\ \E k \in 1 .. Len(metrics) :
                 /\ metrics[k] = verdict'.loads[i]
                 /\ HasCpu(metrics[k]) /\ HasMemory(metrics[k])]_vars

\* the tick was skipped although both queries returned samples: a hot pod
\* has no memory sample, and the pod with a memory sample has no CPU sample
C29_NoPodWithBoth ==
  /\ verdict.kind = "monitor" /\ ~verdict.err
  /\ verdict.loads = <<>>
  /\ \E i \in 1 .. Len(metrics) :
       metrics[i].CPUUsage = Hot.CPUUsage /\ metrics[i].PodName # status.StandbyPod
  /\ \E i \in 1 .. Len(metrics) : HasMemory(metrics[i])
  /\ Stable(status)

\* one reconcile tick, whatever it does
ReconcileTick ==
  \/ WaitForReplicas \/ CreateBootstrapJob \/ BootstrapSucceeded
  \/ UpdateStandbyPod \/ triggerScaleUp \/ triggerScaleDown
  \/ ReshardNoJob \/ ReshardSucceeded \/ ReshardFailed
  \/ CreateJoinJob \/ JoinSucceeded \/ JoinFailed
  \/ DrainNoJob \/ CreateCleanupJob \/ CleanupFailed \/ CleanupSucceeded \/ DrainFailed

\* a tick that changes the spec or the status
ChangingTick == ReconcileTick /\ (spec' # spec \/ status' # status)

\* C30: after a tick on a Stable cluster, a second tick on the same pods and
\* jobs changes neither spec nor status.
SecondTickFixedPoint ==
  [][(status.Initialized /\ Stable(status) /\ ChangingTick) =>
       ~(ENABLED ChangingTick)']_vars

\* a tick of the reshard phase finds the job succeeded although it had
\* nothing to move: the overloaded primary has fewer than two slots and
\* the standby still has none
NoOpReshardSeen ==
  /\ status.IsResharding /\ ~status.IsDraining
  /\ jobs["reshard"].st = "succeeded"
  /\ slots[jobs["reshard"].args[1]] < 2
  /\ slots[jobs["reshard"].args[2]] = 0

\* C31: a scale-up whose overloaded primary holds fewer than two slots is a
\* no-op: the reshard job that completes moves no slot, and the tick that
\* answers it leaves Spec.Masters and StandbyPod as they were at the trigger.
NoOpScaleUpChangesNothing ==
  [][/\ (JobCompletes("reshard") /\ slots[jobs["reshard"].args[1]] < 2) =>
          slots' = slots
     /\ NoOpReshardSeen =>
          /\ spec'.Masters = proto.masters
          /\ status'.StandbyPod = proto.standby]_vars

\* a tick of a scale-down finds the drain job succeeded
DrainSuccessSeen == status.IsDraining /\ jobs["drain"].st = "succeeded"

\* C32: whenever a tick sees the drain job succeeded, the victim holds no
\* slot; a drain job that completes for a victim of N > 0 slots has given
\* floor(N / 2) to DrainDestPod1 and the rest to DrainDestPod2, or all N to
\* DrainDestPod1 when it is the only destination; and the victim is made
\* the standby only when it holds no slot.
DrainEmptiesVictim ==
  [][/\ DrainSuccessSeen => slots[status.PodToDrain] = 0
     /\ (JobCompletes("drain") /\ slots[jobs["drain"].args[1]] > 0) =>
          LET victim == jobs["drain"].args[1]
              dest1 == jobs["drain"].args[2]
              dest2 == jobs["drain"].args[3]
              N == slots[victim]
          IN /\ slots'[victim] = 0
             /\ IF dest2 # NoPod
                THEN /\ slots'[dest1] = slots[dest1] + N \div 2
                     /\ slots'[dest2] = slots[dest2] + (N - N \div 2)
                ELSE slots'[dest1] = slots[dest1] + N
     /\ ScaleDownEnds => slots[status.PodToDrain] = 0]_vars

\* the step decrements Spec.Masters
MastersDecremented == spec'.Masters < spec.Masters

\* C33: a scale-down is strictly ordered.  The cleanup-standby job is
\* created only when the drain job has succeeded; Spec.Masters is
\* decremented only when the cleanup-standby job has succeeded too; and the
\* tick that decrements it makes the drained victim, which is not the
\* standby so far, the StandbyPod and clears IsDraining and the drain
\* witnesses.
ScaleDownInOrder ==
  [][/\ JobCreated("cleanup") => jobs["drain"].st = "succeeded"
     /\ MastersDecremented =>
          /\ jobs["drain"].st = "succeeded" /\ jobs["cleanup"].st = "succeeded"
          /\ status'.StandbyPod = status.PodToDrain
          /\ status'.StandbyPod # status.StandbyPod
          /\ ~status'.IsDraining
          /\ status'.PodToDrain = NoPod
          /\ status'.DrainDestPod1 = NoPod
          /\ status'.DrainDestPod2 = NoPod]_vars

\* C34: the witness fields of the persisted status match the phase.
\* OverloadedPod is set exactly when IsResharding is true; PodToDrain and
\* DrainDestPod1 are set exactly when IsDraining is true; DrainDestPod2 is
\* set only while IsDraining is true.
WitnessesMatchPhase ==
  /\ status.OverloadedPod # NoPod <=> status.IsResharding
  /\ status.PodToDrain # NoPod <=> status.IsDraining
  /\ status.DrainDestPod1 # NoPod <=> status.IsDraining
  /\ status.DrainDestPod2 # NoPod => status.IsDraining

\* back in Stable after a reshard job failed that could not be deleted: the
\* overloaded pod is forgotten
C34_ReshardFailureCleared ==
  /\ status.Initialized /\ Stable(status)
  /\ jobs["reshard"].st = "failed"
  /\ jobs["reshard"].args[2] = status.StandbyPod
  /\ status.OverloadedPod = NoPod
  /\ slots[status.StandbyPod] = 0

\* a tick that does not depend on the samples: every tick but the two that
\* take a scaling decision
ProtocolTick ==
  \/ WaitForReplicas \/ CreateBootstrapJob \/ BootstrapSucceeded
  \/ UpdateStandbyPod
  \/ ReshardNoJob \/ ReshardSucceeded \/ ReshardFailed
  \/ CreateJoinJob \/ JoinSucceeded \/ JoinFailed
  \/ DrainNoJob \/ CreateCleanupJob \/ CleanupFailed \/ CleanupSucceeded \/ DrainFailed

\* The reconcile loop under fairness: the controller is requeued and keeps
\* running ticks (no sample has to trigger a protocol), every running job
\* comes to an end, the StatefulSet controller keeps creating, readying and
\* deleting pods.  API writes fail at most MaxFaults times.
FairSpec ==
  /\ Spec
  /\ WF_vars(ProtocolTick)
  /\ \A j \in JobNames : WF_vars(JobEnds(j))
  /\ WF_vars(PodCreate) /\ WF_vars(PodBecomesReady) /\ WF_vars(PodDelete)

\* C35: under fairness every protocol that has entered ScalingUp,
\* ProvisioningStandby or ScalingDown leaves that phase, and the cluster is
\* Stable again after it.
ProtocolsTerminate ==
  /\ (Phase(status) = "ScalingUp") ~> (Phase(status) # "ScalingUp")
  /\ (Phase(status) = "ProvisioningStandby") ~> (Phase(status) # "ProvisioningStandby")
  /\ (Phase(status) = "ScalingDown") ~> (Phase(status) # "ScalingDown")
  /\ (status.Initialized /\ ~Stable(status)) ~> Stable(status)

\* the pods a job of the protocol in progress is created for: a job that
\* exists for other pods was created by an earlier protocol
OwnReshardJob == jobs["reshard"].args = <<status.OverloadedPod, status.StandbyPod>>
OwnJoinJob == jobs["join"].args = <<StandbyIndex(cluster)>>
OwnDrainJob ==
  jobs["drain"].args = <<status.PodToDrain, status.DrainDestPod1,
                         status.DrainDestPod2, status.StandbyPod>>
OwnCleanupJob == jobs["cleanup"].args = <<status.PodToDrain, status.StandbyPod>>

\* C36: only a job created during the protocol in progress counts as
\* evidence.  A step that changes Spec.Masters, reassigns StandbyPod or
\* advances the phase on a succeeded reshard, join-nodes, drain or
\* cleanup-standby job is taken on a job that was created for the pods of
\* this protocol, never on one left over from an earlier protocol.
OnlyOwnJobsCount ==
  [][/\ (status.IsResharding /\ (ReshardPhaseEnds \/ spec'.Masters # spec.Masters)) =>
          OwnReshardJob
     /\ ScaleUpEnds => OwnJoinJob
     /\ (status.IsDraining /\ JobCreated("cleanup")) => OwnDrainJob
     /\ (status.IsDraining /\ (ScaleDownEnds \/ spec'.Masters # spec.Masters)) =>
          OwnDrainJob /\ OwnCleanupJob]_vars

\* C37: the plan triggerScaleDown records has a DrainDestPod1; the
\* destinations differ from the victim and from each other, neither is the
\* standby, both sit at a primary's ordinal (a multiple of 1 +
\* ReplicasPerMaster); and no plan is recorded from fewer than two samples
\* of active primaries.
DrainTargetsAreOtherPrimaries ==
  verdict.kind = "plan" =>
    LET plan == verdict.result
        atPrimaryOrdinal(p) == p % (1 + cluster.ReplicasPerMaster) = 0
        eligible == {i \in ActiveSamples : atPrimaryOrdinal(metrics[i].PodName)}
    IN /\ plan.dest1 # NoPod
       /\ plan.dest1 # plan.pod /\ plan.dest2 # plan.pod
       /\ plan.dest1 # plan.dest2
       /\ plan.dest1 # status.StandbyPod /\ plan.dest2 # status.StandbyPod
       /\ atPrimaryOrdinal(plan.dest1)
       /\ plan.dest2 # NoPod => atPrimaryOrdinal(plan.dest2)
       /\ Cardinality(eligible) >= 2

\* a plan from exactly two samples of active primaries, although a replica
\* reports less memory than the destination
C37_ReplicaPassedOver ==
  /\ verdict.kind = "plan"
  /\ Len(metrics) = MaxSamples
  /\ \E i, k \in 1 .. Len(metrics) :
       /\ metrics[i].PodName % (1 + cluster.ReplicasPerMaster) # 0
       /\ metrics[k].PodName = verdict.result.dest1
       /\ metrics[i].MemoryUsage < metrics[k].MemoryUsage

\* the samples of active primaries that monitorMetrics compares: both values
\* present, the pod not the standby
ComparedSamples ==
  {i \in 1 .. Len(metrics) : /\ HasCpu(metrics[i]) /\ HasMemory(metrics[i])
                             /\ metrics[i].PodName # status.StandbyPod}

OverloadedIsNotStandby ==
  [][/\ status'.IsResharding =>
          /\ status'.OverloadedPod # NoPod
          /\ status'.OverloadedPod # status'.StandbyPod
     /\ (status.IsResharding /\ status'.IsResharding) =>
          status'.StandbyPod = status.StandbyPod
     /\ JobCreated("reshard") =>
          /\ jobs'["reshard"].args = <<status.OverloadedPod, status.StandbyPod>>
          /\ jobs'["reshard"].args[1] # jobs'["reshard"].args[2]]_vars

\* a reshard job running from an overloaded primary to the standby
C39_ReshardJobCreated ==
  /\ status.IsResharding
  /\ jobs["reshard"].st = "running"
  /\ jobs["reshard"].args = <<status.OverloadedPod, status.StandbyPod>>
  /\ status.StandbyPod # NoPod

\* what only handleAutoScaling does: it writes the phase flags, their
\* witnesses and LastScaleTime, changes Spec.Masters, replaces a recorded
\* standby, creates and deletes the scaling jobs
HandleAutoScalingActs ==
  \/ \E f \in {"IsResharding", "IsDraining", "IsProvisioningStandby", "OverloadedPod",
                "PodToDrain", "DrainDestPod1", "DrainDestPod2", "LastScaleTime"} :
        status'[f] # status[f]
  \/ spec'.Masters # spec.Masters
  \/ status.StandbyPod # NoPod /\ status'.StandbyPod # status.StandbyPod
  \/ \E j \in ScalingJobs : JobCreated(j) \/ (jobs[j].st # "none" /\ jobs'[j].st = "none")

\* C40: handleAutoScaling acts only in ticks that find Status.Initialized
\* true and Status.StandbyPod set; a managed cluster becomes Initialized only
\* in a tick that finds the bootstrap job succeeded and the pod at ordinal
\* Masters * (1 + ReplicasPerMaster) Running and Ready, and that tick records
\* this pod as the standby; Initialized is never reset.
ScalingOnlyWhenInitialized ==
  [][/\ HandleAutoScalingActs => status.Initialized /\ status.StandbyPod # NoPod
     /\ (~cluster.ExistingCluster /\ ~status.Initialized /\ status'.Initialized) =>
          /\ jobs["bootstrap"].st = "succeeded"
          /\ PodReady(cluster.Masters * (1 + cluster.ReplicasPerMaster))
          /\ status'.StandbyPod = cluster.Masters * (1 + cluster.ReplicasPerMaster)
     /\ status.Initialized => status'.Initialized]_vars

\* a bootstrapped managed cluster in which handleAutoScaling has started a
\* protocol
C40_ScalingAfterBootstrap ==
  /\ ~cluster.ExistingCluster
  /\ status.Initialized /\ jobs["bootstrap"].st = "succeeded"
  /\ ~Stable(status)

====
